---- MODULE Spec2Model ----
(***************************************************************************)
(* A model of the pure-arbitrage pipeline of the repository:               *)
(*   - AsyncRateLimiter            (src/core/rate_limiter.py)              *)
(*   - ArbitragePureDetector       (src/strategies/arbitrage_pure/detector)*)
(*   - ArbitragePureExecutor       (src/strategies/arbitrage_pure/executor)*)
(*   - PolymarketClientService     (src/core/polymarket_client.py)         *)
(*   - ArbitrageBotService         (src/services/arbitrage_bot.py)         *)
(*   - arbitrage_pure_main         (src/main.py)                           *)
(* Each component has its own specification (SpecRL, SpecAnalyze, SpecDet,  *)
(* SpecExec, SpecSizing, SpecGateway, SpecBot) over its own variables; the *)
(* variables of the components a specification does not run stay at their  *)
(* initial values.  SpecBot runs the orchestrator together with the        *)
(* detector and the executor on asyncio's event loop; SpecBotFair adds the *)
(* loop's progress for the liveness properties.                            *)
(*                                                                         *)
(* Time is counted in integer ticks of the monotonic clock.  Prices are    *)
(* integers in mills (1000 = $1.00).  Money and share counts that come out *)
(* of a division are exact rationals <<n, d>> in dollars.                  *)
(***************************************************************************)
EXTENDS Integers, Sequences, FiniteSets, TLC

VARIABLES
    \* ---- AsyncRateLimiter
    max_calls,      \* AsyncRateLimiter.max_calls (N)
    calls,          \* AsyncRateLimiter._calls: the deque of admission timestamps
    lockHolder,     \* AsyncRateLimiter._lock: the caller inside `async with`, 0 when free
    lockWaiters,    \* asyncio.Lock's FIFO of suspended acquirers
    clock,          \* time.monotonic()
    rlpc,           \* where each caller of acquire() is
    wakeAt,         \* the deadline of each caller's asyncio.sleep
    issued,         \* when each caller entered acquire()
    admitted,       \* history: one record per acquire() that returned
    \* ---- ArbitragePureDetector configuration
    long_sum_threshold,     \* ArbitragePureDetector.long_sum_threshold, in mills
    short_sum_threshold,    \* ArbitragePureDetector.short_sum_threshold, in mills
    min_profit_threshold,   \* ArbitragePureDetector.min_profit_threshold, in mills
    \* ---- one call of analyze_market
    am,             \* the BinaryMarket passed to analyze_market
    ares,           \* what analyze_market returned: <<>> for None, <<arb>> otherwise
    apc,            \* "ready" before the call, "returned" after it
    \* ---- one call of scan_markets
    feed,           \* the listing the gateway holds
    markets,        \* what get_top_markets returned to scan_markets
    analyses,       \* history: what analyze_market returned for each fetched market
    opportunities,  \* the list scan_markets returned
    dpc,            \* "idle", "fetching" (awaiting get_top_markets), "done"
    \* ---- PolymarketClientService
    paper_trading,  \* PolymarketClientService.paper_trading
    mock_mode,      \* PolymarketClientService.mock_mode
    client_ready,   \* PolymarketClientService._client is not None
    \* ---- one call of ArbitragePureExecutor.execute
    arb,            \* the Arbitrage passed to execute
    amount,         \* the amount passed to execute, a rational in dollars
    epc,            \* "idle", "legs" (awaiting asyncio.gather), "done" (returned), "raised"
    legs,           \* the two create_market_order tasks of the gather, by outcome
    orders,         \* history: the OrderConfigs handed to create_market_order
    firstError,     \* the first exception a leg raised: <<>> or <<exc>>
    redeemCalls,    \* history: the (yes_shares, no_shares) handed to redeem
    result,         \* the ExecutionResult returned: <<>> or <<res>>
    \* ---- one call of PolymarketClientService.get_top_markets (live listing)
    limit,          \* the limit argument
    upstream,       \* what the listing endpoint answers to the successive page requests
    gmarkets,       \* the local list `markets`
    offset,         \* the local `offset`
    requests,       \* history: the (limit, offset) parameters of the page requests issued
    gpc,            \* "idle", "paging" (in the while loop), "awaiting", "returned", "raised"
    gresult,        \* the list get_top_markets returned
    \* ---- BotConfig, as far as the orchestrator reads it
    position_size,      \* BotConfig.position_size, a rational
    execution_delay_ms, \* BotConfig.execution_delay_ms
    \* ---- ArbitrageBotService
    running,        \* ArbitrageBotService._running
    balance,        \* ArbitrageBotService._balance, a rational in dollars
    trade_logs,     \* ArbitrageBotService._trade_logs
    stop_event,     \* ArbitrageBotService._stop_event: "none", "clear" or "set"
    cycle_count,    \* ArbitrageBotService._cycle_count
    position_amount,\* what the last _position_amount() returned: <<>> or <<x>>
    bpc,            \* where the task running start() is
    idx,            \* the index i of `for i, arb in enumerate(opportunities)`, from 1
    cancelling,     \* task.cancel() was called on the task and not yet delivered
    mpc,            \* where arbitrage_pure_main is: "none", "wait_stop", "await_task", "done"
    cycle_error,    \* history: the current scan cycle raised into its `except Exception`
    stop_called,    \* history: stop() was called after start() began
    stops,          \* history: the number of stop requests raised
    expired,        \* history: the waits whose timer fired after stop() was called
    \* ---- asyncio's event loop
    ready,          \* BaseEventLoop._ready: the callbacks to run, first in first out
    todo,           \* how many callbacks of the current iteration of the loop are left
    wake,           \* why the wakeup of the task running start() is scheduled, or "none"
    \* ---- PositionManager
    capital,        \* PositionManager.capital, a rational in dollars
    positions,      \* PositionManager._positions: the open positions in insertion order
    trades,         \* PositionManager._trades
    next_id,        \* PositionManager._next_id
    handles,        \* the Position objects open_position has returned to the caller
    pmret,          \* the outcome of the last PositionManager call
    \* ---- one call of RiskManager.check_position
    position,       \* the Position passed (its sl and tp, in mills)
    current_price,  \* the current_price passed, in mills
    time_remaining, \* the time_remaining passed
    action,         \* what check_position returned: <<>> before the call, <<a>> after it
    \* ---- BotConfig.validate and the start of arbitrage_pure_main
    config,         \* the BotConfig that BotConfig.load() returned
    vpc,            \* "loaded", "validated", "rejected" (validate raised), "type_error"
    \* ---- one raw item of the listing, or one draw of _mock_markets
    raw,            \* the raw item passed to _parse_binary_market, or the draws of the generator
    parsed,         \* what was returned: <<>> for None, <<BinaryMarket>> otherwise
    ppc             \* "ready" before the call, "returned" after it

rlvars == <<max_calls, calls, lockHolder, lockWaiters, clock, rlpc, wakeAt, issued, admitted>>
cfgvars == <<long_sum_threshold, short_sum_threshold, min_profit_threshold>>
anvars == <<am, ares, apc>>
detvars == <<feed, markets, analyses, opportunities, dpc>>

clientvars == <<paper_trading, mock_mode, client_ready>>
exvars == <<arb, amount, epc, legs, orders, firstError, redeemCalls, result>>

gwvars == <<limit, upstream, gmarkets, offset, requests, gpc, gresult>>
botvars == <<position_size, execution_delay_ms, running, balance, trade_logs, stop_event,
             cycle_count, position_amount, bpc, idx, cancelling, mpc, cycle_error,
             stop_called, stops, expired>>
loopvars == <<ready, todo, wake>>
pmvars == <<capital, positions, trades, next_id, handles, pmret>>
riskvars == <<position, current_price, time_remaining, action>>
startvars == <<config, vpc>>
parsevars == <<raw, parsed, ppc>>
libvars == <<pmvars, riskvars, startvars, parsevars>>

vars == <<rlvars, cfgvars, anvars, detvars, clientvars, exvars, gwvars, botvars, loopvars, libvars>>

\* What each component leaves alone.
\* The event loop's queue is not part of notDet and notExec: under SpecBot a step of
\* the detector or of the executor is also a step of the loop.
notRL == <<cfgvars, anvars, detvars, clientvars, exvars, gwvars, botvars, loopvars, libvars>>
notAnalyze == <<rlvars, detvars, clientvars, exvars, gwvars, botvars, loopvars, libvars>>
notDet == <<rlvars, anvars, clientvars, exvars, gwvars, botvars, libvars>>
notExec == <<rlvars, cfgvars, anvars, detvars, gwvars, botvars, libvars>>
notGateway == <<rlvars, cfgvars, anvars, detvars, clientvars, exvars, botvars, loopvars, libvars>>
notSizing == <<rlvars, cfgvars, anvars, detvars, clientvars, exvars, gwvars, loopvars, libvars>>

(***************************************************************************)
(* Program constants and the components' states after construction         *)
(***************************************************************************)

\* $1.00 in mills: the guaranteed payoff of a complete YES+NO set.
Dollar == 1000

\* The defaults of ArbitragePureDetector's fields, in mills and dollars.
DefaultLongSumThreshold == 990
DefaultShortSumThreshold == 1010
DefaultMinProfitThreshold == 5
min_market_volume == 10000

\* ArbitragePureDetector as ArbitrageBotService.__post_init__ builds it with the
\* default configuration.
DefaultDetector ==
    /\ long_sum_threshold = DefaultLongSumThreshold
    /\ short_sum_threshold = DefaultShortSumThreshold
    /\ min_profit_threshold = DefaultMinProfitThreshold

\* No call of analyze_market is modelled.
NoAnalysis ==
    /\ am = [market |-> 0, volume |-> 0, yes_bid |-> 0, yes_ask |-> 0,
             no_bid |-> 0, no_ask |-> 0, active |-> FALSE]
    /\ ares = <<>>
    /\ apc = "returned"

\* No call of scan_markets is modelled.
NoScan ==
    /\ feed = <<>>
    /\ markets = <<>>
    /\ analyses = <<>>
    /\ opportunities = <<>>
    /\ dpc = "done"

\* PolymarketClientService with its default flags (simulation), not initialized.
DefaultClient ==
    /\ paper_trading = TRUE
    /\ mock_mode = TRUE
    /\ client_ready = FALSE

Outcomes == {"YES", "NO"}

NoCfg == [market |-> 0, outcome |-> "", side |-> "", shares |-> <<0, 1>>, expected_price |-> 0]
NoOrder == [market |-> 0, outcome |-> "", side |-> "", filled_price |-> 0, shares |-> <<0, 1>>]
NoLeg == [status |-> "none", cfg |-> NoCfg, order |-> NoOrder]

\* No call of execute is modelled.
NoExecution ==
    /\ arb = [type |-> "long", market |-> 0, profit |-> 0, yes_price |-> 0, no_price |-> 0]
    /\ amount = <<0, 1>>
    /\ epc = "done"
    /\ legs = [o \in Outcomes |-> NoLeg]
    /\ orders = <<>>
    /\ firstError = <<>>
    /\ redeemCalls = <<>>
    /\ result = <<>>

\* No call of get_top_markets is modelled.
NoGateway ==
    /\ limit = 0
    /\ upstream = <<>>
    /\ gmarkets = <<>>
    /\ offset = 0
    /\ requests = <<>>
    /\ gpc = "returned"
    /\ gresult = <<>>

\* No call of _parse_binary_market or _mock_markets is modelled.
NoParse ==
    /\ raw = <<>>
    /\ parsed = <<>>
    /\ ppc = "none"

\* No PositionManager, no call of check_position and no start-up is modelled.
NoLib ==
    /\ capital = <<0, 1>>
    /\ positions = <<>>
    /\ trades = <<>>
    /\ next_id = 1
    /\ handles = <<>>
    /\ pmret = [op |-> "none", raised |-> FALSE, trades |-> <<>>]
    /\ position = [sl |-> 0, tp |-> 0]
    /\ current_price = 0
    /\ time_remaining = 0
    /\ action = <<>>
    /\ config = <<>>
    /\ vpc = "none"
    /\ NoParse

\* No orchestrator is modelled and the event loop has nothing to run.
NoBot ==
    /\ position_size = <<0, 1>>
    /\ execution_delay_ms = 0
    /\ running = FALSE
    /\ balance = <<0, 1>>
    /\ trade_logs = <<>>
    /\ stop_event = "none"
    /\ cycle_count = 0
    /\ position_amount = <<>>
    /\ bpc = "none"
    /\ idx = 0
    /\ cancelling = FALSE
    /\ mpc = "none"
    /\ cycle_error = FALSE
    /\ stop_called = FALSE
    /\ stops = 0
    /\ expired = {}
    /\ ready = <<>>
    /\ todo = 0
    /\ wake = "none"


(***************************************************************************)
(* AsyncRateLimiter                                                        *)
(***************************************************************************)

\* Bounds of the rate-limiter model.
NumCallers == 2
MaxCallsHi == 2
Period == 2
MaxTime == 5
MaxAdmits == 4

Callers == 1..NumCallers

\* period_seconds (T), in ticks.
period_seconds == Period

\* while self._calls and now - self._calls[0] >= self.period_seconds: popleft()
ExpireOldLoop[cs \in Seq(0..MaxTime), now \in 0..MaxTime] ==
    IF cs # <<>> /\ now - Head(cs) >= period_seconds
    THEN ExpireOldLoop[Tail(cs), now]
    ELSE cs

\* A variant of ExpireOld that leaves the expired entries in the window.
ExpireOldNever(cs, now) == cs

ExpireOld(cs, now) == ExpireOldLoop[cs, now]

\* A variant of SleepFor that wakes one tick before the oldest entry expires.
SleepForShort(cs, now) == period_seconds - (now - Head(cs)) - 1

\* sleep_for = self.period_seconds - (now - self._calls[0])
SleepFor(cs, now) == period_seconds - (now - Head(cs))

\* A variant of HasSlot that admits when the window is exactly full.
HasSlotOffByOne(cs) == Len(cs) <= max_calls

\* if len(self._calls) < self.max_calls
HasSlot(cs) == Len(cs) < max_calls

\* The body of `async with self._lock` up to its first suspension: lines 27-38,
\* and lines 40-44 too when sleep_for is not positive.  `c` holds the lock.
CriticalSection(c, iss, suspended) ==
    LET now == clock
        cs1 == ExpireOld(calls, now)
        adm == [at |-> now, issued |-> iss, suspended |-> suspended]
    IN  IF HasSlot(cs1)
        THEN /\ calls' = Append(cs1, now)
             /\ admitted' = Append(admitted, adm)
             /\ lockHolder' = 0
             /\ rlpc' = [rlpc EXCEPT ![c] = "idle"]
             /\ UNCHANGED wakeAt
        ELSE IF SleepFor(cs1, now) > 0
        THEN /\ calls' = cs1
             /\ lockHolder' = c
             /\ rlpc' = [rlpc EXCEPT ![c] = "sleeping"]
             /\ wakeAt' = [wakeAt EXCEPT ![c] = now + SleepFor(cs1, now)]
             /\ UNCHANGED admitted
        ELSE /\ calls' = Append(ExpireOld(cs1, now), now)
             /\ admitted' = Append(admitted, adm)
             /\ lockHolder' = 0
             /\ rlpc' = [rlpc EXCEPT ![c] = "idle"]
             /\ UNCHANGED wakeAt

\* acquire() is called by an idle caller.  With max_calls <= 0 it returns at once;
\* with the lock free (and nobody queued for it) it enters the critical section
\* without suspending; otherwise it queues for the lock.
Acquire(c) ==
    /\ rlpc[c] = "idle"
    /\ Len(admitted) + Cardinality({d \in Callers : rlpc[d] # "idle"}) < MaxAdmits
    /\ issued' = [issued EXCEPT ![c] = clock]
    /\ IF max_calls <= 0
       THEN /\ admitted' = Append(admitted, [at |-> clock, issued |-> clock, suspended |-> FALSE])
            /\ UNCHANGED <<calls, lockHolder, lockWaiters, rlpc, wakeAt>>
       ELSE IF lockHolder = 0 /\ lockWaiters = <<>>
       THEN /\ CriticalSection(c, clock, FALSE)
            /\ UNCHANGED lockWaiters
       ELSE /\ lockWaiters' = Append(lockWaiters, c)
            /\ rlpc' = [rlpc EXCEPT ![c] = "waitlock"]
            /\ UNCHANGED <<calls, lockHolder, wakeAt, admitted>>
    /\ UNCHANGED <<max_calls, clock>>
    /\ UNCHANGED notRL

\* The lock was released and the first queued caller is resumed holding it.
LockGranted(c) ==
    /\ rlpc[c] = "waitlock"
    /\ lockHolder = 0
    /\ lockWaiters # <<>>
    /\ Head(lockWaiters) = c
    /\ lockWaiters' = Tail(lockWaiters)
    /\ CriticalSection(c, issued[c], TRUE)
    /\ UNCHANGED <<max_calls, clock, issued>>
    /\ UNCHANGED notRL

\* A variant of SleepOver for a timer that fires at its due time or never.
SleepOverExactly(c) == clock = wakeAt[c]

\* The timer of asyncio.sleep(sleep_for) is due.
SleepOver(c) == clock >= wakeAt[c]

\* asyncio.sleep(sleep_for) is over: lines 40-44.  The sleep lasts at least
\* sleep_for and may last longer; the lock stays held throughout.
WakeUp(c) ==
    /\ rlpc[c] = "sleeping"
    /\ SleepOver(c)
    /\ calls' = Append(ExpireOld(calls, clock), clock)
    /\ admitted' = Append(admitted, [at |-> clock, issued |-> issued[c], suspended |-> TRUE])
    /\ lockHolder' = 0
    /\ rlpc' = [rlpc EXCEPT ![c] = "idle"]
    /\ UNCHANGED <<max_calls, lockWaiters, clock, wakeAt, issued>>
    /\ UNCHANGED notRL

\* The monotonic clock advances.
Tick ==
    /\ clock < MaxTime
    /\ clock' = clock + 1
    /\ UNCHANGED <<max_calls, calls, lockHolder, lockWaiters, rlpc, wakeAt, issued, admitted>>
    /\ UNCHANGED notRL

\* A limiter on which acquire() has not been called yet.
FreshLimiter ==
    /\ calls = <<>>
    /\ lockHolder = 0
    /\ lockWaiters = <<>>
    /\ clock = 0
    /\ rlpc = [c \in Callers |-> "idle"]
    /\ wakeAt = [c \in Callers |-> 0]
    /\ issued = [c \in Callers |-> 0]
    /\ admitted = <<>>

InitRL ==
    /\ max_calls \in 0..MaxCallsHi
    /\ FreshLimiter
    /\ DefaultDetector
    /\ NoAnalysis
    /\ NoScan
    /\ DefaultClient
    /\ NoExecution
    /\ NoGateway
    /\ NoLib
    /\ NoBot

NextRL ==
    \/ \E c \in Callers : Acquire(c)
    \/ \E c \in Callers : LockGranted(c)
    \/ \E c \in Callers : WakeUp(c)
    \/ Tick

SpecRL == InitRL /\ [][NextRL]_vars

\* The admissions whose time lies in the trailing window (t - T, t].
InWindow(t) == {i \in DOMAIN admitted : t - period_seconds < admitted[i].at /\ admitted[i].at <= t}

\* C1: with max_calls > 0, at no instant does the trailing window of one period
\* hold more than max_calls admissions, whatever the interleaving of callers.
C1_WindowNeverExceeded ==
    max_calls > 0 => \A t \in 0..MaxTime : Cardinality(InWindow(t)) <= max_calls

\* C1 witness: the window is full and a later caller was made to wait for a slot.
C1_Witness ==
    /\ max_calls > 0
    /\ Cardinality(InWindow(clock)) = max_calls
    /\ \E i \in DOMAIN admitted : admitted[i].suspended /\ admitted[i].at > admitted[i].issued
    /\ \E c \in Callers : rlpc[c] = "waitlock"

\* C2: from the empty window the first max_calls acquisitions return at the instant
\* they are issued, without suspending, and the next one returns only when one of
\* them is at least a full period old.
C2_BurstThenBlock ==
    max_calls > 0 =>
        /\ \A i \in DOMAIN admitted :
               i <= max_calls => admitted[i].at = admitted[i].issued /\ ~admitted[i].suspended
        /\ Len(admitted) > max_calls =>
               \E j \in 1..max_calls : admitted[max_calls + 1].at - admitted[j].at >= period_seconds

\* C2 witness: max_calls + 1 acquisitions were all issued at instant 0; the first
\* max_calls returned at 0 and the last one returned after suspending.
C2_Witness ==
    /\ max_calls > 0
    /\ Len(admitted) > max_calls
    /\ \A i \in 1..(max_calls + 1) : admitted[i].issued = 0
    /\ \A i \in 1..max_calls : admitted[i].at = 0
    /\ admitted[max_calls + 1].suspended
    /\ admitted[max_calls + 1].at >= period_seconds

\* The timestamps of cs that are less than one period old at instant now.
StillInWindow(cs, now) == SelectSeq(cs, LAMBDA t : now - t < period_seconds)

\* C27: a caller that suspended inside acquire() (for the lock or in the sleep)
\* records its timestamp only in a step in which fewer than max_calls recorded
\* timestamps are still inside the window at that instant, and the window it
\* leaves holds exactly those timestamps followed by its own.
C27_RecheckAfterWaking ==
    [][(Len(admitted') > Len(admitted) /\ admitted'[Len(admitted')].suspended) =>
           /\ max_calls > 0
           /\ Len(StillInWindow(calls, clock)) < max_calls
           /\ calls' = Append(StillInWindow(calls, clock), clock)]_vars

\* C27 witness: with max_calls = 1 three acquisitions were issued at instant 0;
\* the second slept for the slot while the third queued for the lock, and the
\* third, resumed when the second returned, slept again for a full period.
C27_Witness ==
    /\ max_calls = 1
    /\ Len(admitted) = 3
    /\ \A i \in 1..3 : admitted[i].issued = 0
    /\ admitted[2].suspended /\ admitted[2].at >= period_seconds
    /\ admitted[3].suspended /\ admitted[3].at >= admitted[2].at + period_seconds

(***************************************************************************)
(* ArbitragePureDetector.analyze_market                                    *)
(***************************************************************************)

Min(a, b) == IF a <= b THEN a ELSE b
Max(a, b) == IF a >= b THEN a ELSE b

\* A variant of Rejected that lets a crossed book through.
RejectedNoBookCheck(m) ==
    \/ ~m.active
    \/ m.volume < min_market_volume
    \/ Min(Min(m.yes_bid, m.yes_ask), Min(m.no_bid, m.no_ask)) <= 0

\* A variant of Crossed that looks at the YES side only.
CrossedYesOnly(m) == m.yes_ask < m.yes_bid

\* if market.yes_ask < market.yes_bid or market.no_ask < market.no_bid
Crossed(m) == m.yes_ask < m.yes_bid \/ m.no_ask < m.no_bid

\* The four early `return None` of analyze_market.
Rejected(m) ==
    \/ ~m.active
    \/ m.volume < min_market_volume
    \/ Min(Min(m.yes_bid, m.yes_ask), Min(m.no_bid, m.no_ask)) <= 0
    \/ Crossed(m)

\* A variant of LongArb that takes the bid side as the leg prices.
LongArbFromBids(m) ==
    [type |-> "long", market |-> m.market,
     profit |-> Max(0, Dollar - (m.yes_ask + m.no_ask)),
     yes_price |-> m.yes_bid, no_price |-> m.no_bid]

\* The Arbitrage built when long_sum < long_sum_threshold.
LongArb(m) ==
    [type |-> "long", market |-> m.market,
     profit |-> Max(0, Dollar - (m.yes_ask + m.no_ask)),
     yes_price |-> m.yes_ask, no_price |-> m.no_ask]

\* A variant of ShortArb with the sign of the profit reversed.
ShortArbSignSlip(m) ==
    [type |-> "short", market |-> m.market,
     profit |-> Max(0, Dollar - (m.yes_bid + m.no_bid)),
     yes_price |-> m.yes_bid, no_price |-> m.no_bid]

\* The Arbitrage built when short_sum > short_sum_threshold.
ShortArb(m) ==
    [type |-> "short", market |-> m.market,
     profit |-> Max(0, (m.yes_bid + m.no_bid) - Dollar),
     yes_price |-> m.yes_bid, no_price |-> m.no_bid]

\* A variant of PickBest in which the short candidate always replaces the long one.
PickLast(best, cand) == <<cand>>

\* if best is None or cand.profit > best.profit: best = cand
PickBest(best, cand) ==
    IF best = <<>> \/ cand.profit > best[1].profit THEN <<cand>> ELSE best

\* analyze_market: <<>> stands for None, <<arb>> for an Arbitrage.
AnalyzeMarket(m) ==
    IF Rejected(m) THEN <<>>
    ELSE LET long_sum == m.yes_ask + m.no_ask
             short_sum == m.yes_bid + m.no_bid
             best == IF long_sum < long_sum_threshold THEN <<LongArb(m)>> ELSE <<>>
         IN  IF short_sum > short_sum_threshold
             THEN PickBest(best, ShortArb(m))
             ELSE best

\* The values a quote field takes in the model, in mills: a non-positive price,
\* prices around the 0.99 / 1.01 thresholds, and a price of exactly $1.
PriceVals == {0, 470, 480, 490, 500, 510, 520, 1000}
VolumeVals == {5000, 10000, 50000}

\* Threshold pairs: the defaults, and a pair under which the long and the short
\* condition can hold together.
ThresholdPairs == {<<DefaultLongSumThreshold, DefaultShortSumThreshold>>, <<1050, 950>>}

InitAnalyze ==
    /\ am \in [market : {1}, volume : VolumeVals, yes_bid : PriceVals, yes_ask : PriceVals,
               no_bid : PriceVals, no_ask : PriceVals, active : BOOLEAN]
    /\ ares = <<>>
    /\ apc = "ready"
    /\ \E th \in ThresholdPairs : long_sum_threshold = th[1] /\ short_sum_threshold = th[2]
    /\ min_profit_threshold = DefaultMinProfitThreshold
    /\ max_calls = 0
    /\ FreshLimiter
    /\ NoScan
    /\ DefaultClient
    /\ NoExecution
    /\ NoGateway
    /\ NoLib
    /\ NoBot

AnalyzeCall ==
    /\ apc = "ready"
    /\ ares' = AnalyzeMarket(am)
    /\ apc' = "returned"
    /\ UNCHANGED <<am, cfgvars>>
    /\ UNCHANGED notAnalyze

NextAnalyze == AnalyzeCall

SpecAnalyze == InitAnalyze /\ [][NextAnalyze]_vars

\* The market passes every rejection check of analyze_market, as the claims word them.
PassesChecks(m) ==
    /\ m.active
    /\ m.volume >= min_market_volume
    /\ m.yes_bid > 0 /\ m.yes_ask > 0 /\ m.no_bid > 0 /\ m.no_ask > 0
    /\ m.yes_ask >= m.yes_bid /\ m.no_ask >= m.no_bid

\* C3: with the long threshold at 0.99, a market that passes the rejection checks and
\* has yes_ask + no_ask < 0.99 yields a long opportunity with profit
\* 1 - (yes_ask + no_ask) and leg prices yes_ask and no_ask.
C3_LongOpportunity ==
    (/\ apc = "returned"
     /\ long_sum_threshold = DefaultLongSumThreshold
     /\ PassesChecks(am)
     /\ am.yes_ask + am.no_ask < DefaultLongSumThreshold)
    => /\ Len(ares) = 1
       /\ ares[1].type = "long"
       /\ ares[1].profit = Dollar - (am.yes_ask + am.no_ask)
       /\ ares[1].yes_price = am.yes_ask
       /\ ares[1].no_price = am.no_ask
       /\ ares[1].market = am.market

\* C3 witness: analyze_market returned a long opportunity of profit 0.03 for a
\* market quoted 0.48 / 0.49 on the ask side.
C3_Witness ==
    /\ apc = "returned"
    /\ long_sum_threshold = DefaultLongSumThreshold
    /\ PassesChecks(am)
    /\ am.yes_bid = 470 /\ am.yes_ask = 480 /\ am.no_bid = 480 /\ am.no_ask = 490
    /\ Len(ares) = 1 /\ ares[1].type = "long" /\ ares[1].profit = 30

\* C4: with the short threshold at 1.01, a market that passes the rejection checks and
\* has yes_bid + no_bid > 1.01 yields a short opportunity with profit
\* (yes_bid + no_bid) - 1 and leg prices yes_bid and no_bid.
C4_ShortOpportunity ==
    (/\ apc = "returned"
     /\ short_sum_threshold = DefaultShortSumThreshold
     /\ PassesChecks(am)
     /\ am.yes_bid + am.no_bid > DefaultShortSumThreshold)
    => /\ Len(ares) = 1
       /\ ares[1].type = "short"
       /\ ares[1].profit = (am.yes_bid + am.no_bid) - Dollar
       /\ ares[1].yes_price = am.yes_bid
       /\ ares[1].no_price = am.no_bid
       /\ ares[1].market = am.market

\* C4 witness: analyze_market returned a short opportunity of profit 0.02 for a
\* market quoted 0.52 / 0.50 on the bid side.
C4_Witness ==
    /\ apc = "returned"
    /\ short_sum_threshold = DefaultShortSumThreshold
    /\ PassesChecks(am)
    /\ am.yes_bid = 520 /\ am.no_bid = 500
    /\ Len(ares) = 1 /\ ares[1].type = "short" /\ ares[1].profit = 20

MaxMarkets == 3

\* A quote: a BinaryMarket without its identifier.  bad_volume marks an object
\* whose volume is not a number (None): comparing it raises TypeError.
Quote(yb, ya, nb, na, vol, act) ==
    [volume |-> vol, yes_bid |-> yb, yes_ask |-> ya, no_bid |-> nb, no_ask |-> na, active |-> act,
     bad_volume |-> FALSE]

\* The quote q with a volume that is not a number.
Malformed(q) == [q EXCEPT !.bad_volume = TRUE]

\* The quotes of the listings: long and short arbitrages of equal and of different
\* profit, quotes for which both conditions hold under the wide thresholds, and
\* quotes analyze_market rejects.
ScanQuotes ==
    { Quote(470, 480, 480, 490, 50000, TRUE),   \* long, profit 0.03
      Quote(480, 480, 480, 490, 50000, TRUE),   \* long, profit 0.03
      Quote(480, 490, 480, 490, 50000, TRUE),   \* long, profit 0.02
      Quote(520, 520, 500, 510, 50000, TRUE),   \* short, profit 0.02
      Quote(1000, 1000, 20, 30, 50000, TRUE),   \* short, profit 0.02, a bid of $1
      Quote(490, 500, 500, 510, 50000, TRUE),   \* no arbitrage
      Quote(490, 480, 480, 490, 50000, TRUE),   \* crossed book
      Quote(470, 480, 480, 490, 5000, TRUE),    \* volume below the minimum
      Quote(470, 480, 480, 490, 50000, FALSE),  \* inactive
      Malformed(Quote(470, 480, 480, 490, 0, TRUE)),     \* analyze_market raises
      Malformed(Quote(470, 480, 480, 490, 0, FALSE)) }   \* inactive: None before the volume is read

MinProfitVals == {DefaultMinProfitThreshold, 30}

\* The i-th market of a listing: quote q under the identifier i.
MarketOf(q, i) ==
    [market |-> i, volume |-> q.volume, yes_bid |-> q.yes_bid, yes_ask |-> q.yes_ask,
     no_bid |-> q.no_bid, no_ask |-> q.no_ask, active |-> q.active, bad_volume |-> q.bad_volume]

\* analyze_market raises on m: `market.volume < self.min_market_volume` is reached
\* (the market is active) and the volume is not a number.
AnalysisRaises(m) == m.active /\ m.bad_volume

\* What the history keeps of a call of analyze_market that raised.
AnalysisError(m) ==
    [type |-> "error", market |-> m.market, profit |-> 0, yes_price |-> 0, no_price |-> 0]

\* One call of analyze_market in the loop: <<>>, <<arb>> or <<AnalysisError>>.
Analysis(m) == IF AnalysisRaises(m) THEN <<AnalysisError(m)>> ELSE AnalyzeMarket(m)

\* if arb is None: continue / if arb.profit < self.min_profit_threshold: continue
Qualifies(a) == a # <<>> /\ ~(a[1].profit < min_profit_threshold)

\* A variant of Collect in which a failing analysis ends the loop.
RECURSIVE CollectUntilError(_)
CollectUntilError(ms) ==
    IF ms = <<>> THEN <<>>
    ELSE IF AnalysisRaises(Head(ms)) THEN <<>>
    ELSE LET a == AnalyzeMarket(Head(ms))
         IN  (IF Qualifies(a) THEN a ELSE <<>>) \o CollectUntilError(Tail(ms))

\* The loop `for market in markets` of scan_markets: the opportunities appended,
\* in the order of the markets.  The `except Exception` inside the loop skips a
\* market whose analysis raises.
RECURSIVE Collect(_)
Collect(ms) ==
    IF ms = <<>> THEN <<>>
    ELSE IF AnalysisRaises(Head(ms)) THEN Collect(Tail(ms))
    ELSE LET a == AnalyzeMarket(Head(ms))
         IN  (IF Qualifies(a) THEN a ELSE <<>>) \o Collect(Tail(ms))

\* A variant of InsertByProfit that puts x in front of the entries of equal profit.
RECURSIVE InsertBeforeTies(_, _)
InsertBeforeTies(sorted, x) ==
    IF sorted = <<>> THEN <<x>>
    ELSE IF Head(sorted).profit > x.profit
         THEN <<Head(sorted)>> \o InsertBeforeTies(Tail(sorted), x)
         ELSE <<x>> \o sorted

\* One step of a stable descending sort: x goes behind every entry whose profit is
\* at least its own.
RECURSIVE InsertByProfit(_, _)
InsertByProfit(sorted, x) ==
    IF sorted = <<>> THEN <<x>>
    ELSE IF Head(sorted).profit >= x.profit
         THEN <<Head(sorted)>> \o InsertByProfit(Tail(sorted), x)
         ELSE <<x>> \o sorted

\* opportunities.sort(key=lambda a: a.profit, reverse=True): Python's sort is stable,
\* also with reverse=True.
RECURSIVE SortPrefix(_, _)
SortPrefix(seq, k) ==
    IF k = 0 THEN <<>> ELSE InsertByProfit(SortPrefix(seq, k - 1), seq[k])

SortByProfitDesc(seq) == SortPrefix(seq, Len(seq))

InitDet ==
    /\ \E n \in 0..MaxMarkets : \E qs \in [1..n -> ScanQuotes] :
          feed = [i \in 1..n |-> MarketOf(qs[i], i)]
    /\ markets = <<>>
    /\ analyses = <<>>
    /\ opportunities = <<>>
    /\ dpc = "idle"
    /\ \E th \in ThresholdPairs : long_sum_threshold = th[1] /\ short_sum_threshold = th[2]
    /\ min_profit_threshold \in MinProfitVals
    /\ max_calls = 0
    /\ FreshLimiter
    /\ NoAnalysis
    /\ DefaultClient
    /\ NoExecution
    /\ NoGateway
    /\ NoLib
    /\ NoBot

\* scan_markets is called and suspends in `await self.poly_client.get_top_markets`.
ScanStart ==
    /\ dpc = "idle"
    /\ dpc' = "fetching"
    /\ UNCHANGED <<feed, markets, analyses, opportunities, cfgvars>>
    /\ UNCHANGED notDet

\* get_top_markets returns the listing; scan_markets analyses it, sorts and returns.
ScanFetched ==
    /\ dpc = "fetching"
    /\ markets' = feed
    /\ analyses' = [i \in 1..Len(feed) |-> Analysis(feed[i])]
    /\ opportunities' = IF Len(feed) = 0 THEN <<>> ELSE SortByProfitDesc(Collect(feed))
    /\ dpc' = "done"
    /\ UNCHANGED <<feed, cfgvars>>
    /\ UNCHANGED notDet

\* get_top_markets raises; the outer `except Exception` returns [].
ScanFetchFailed ==
    /\ dpc = "fetching"
    /\ opportunities' = <<>>
    /\ dpc' = "done"
    /\ UNCHANGED <<feed, markets, analyses, cfgvars>>
    /\ UNCHANGED notDet

NextDet ==
    \/ ScanStart /\ UNCHANGED loopvars
    \/ ScanFetched /\ UNCHANGED loopvars
    \/ ScanFetchFailed /\ UNCHANGED loopvars

SpecDet == InitDet /\ [][NextDet]_vars

\* C6: the list scan_markets returns is in non-increasing order of profit, and
\* opportunities of equal profit keep the order their markets had in the listing.
C6_SortedStable ==
    dpc = "done" =>
        \A i, j \in DOMAIN opportunities :
            i < j => /\ opportunities[i].profit >= opportunities[j].profit
                     /\ opportunities[i].profit = opportunities[j].profit
                            => opportunities[i].market < opportunities[j].market

\* C6 witness: a scan returned three opportunities, the last two of equal profit and
\* the first of a higher profit although its market came later in the listing.
C6_Witness ==
    /\ dpc = "done"
    /\ Len(opportunities) = 3
    /\ opportunities[1].profit > opportunities[2].profit
    /\ opportunities[2].profit = opportunities[3].profit
    /\ opportunities[1].market > opportunities[2].market
    /\ opportunities[2].type # opportunities[3].type

\* The profits analyze_market computes for the two candidates.
LongProfitOf(m) == Max(0, Dollar - (m.yes_ask + m.no_ask))
ShortProfitOf(m) == Max(0, (m.yes_bid + m.no_bid) - Dollar)

BothConditions(m) ==
    /\ PassesChecks(m)
    /\ m.yes_ask + m.no_ask < long_sum_threshold
    /\ m.yes_bid + m.no_bid > short_sum_threshold

\* C7: one scan holds at most one opportunity per fetched market, and for a market
\* that meets both the long and the short condition analyze_market returned the
\* single candidate of the higher profit.
C7_OnePerMarket ==
    dpc = "done" =>
        /\ \A i, j \in DOMAIN opportunities :
               i # j => opportunities[i].market # opportunities[j].market
        /\ \A i \in DOMAIN opportunities :
               \E k \in DOMAIN markets : markets[k].market = opportunities[i].market
        /\ \A k \in DOMAIN analyses :
               BothConditions(markets[k]) =>
                   /\ Len(analyses[k]) = 1
                   /\ analyses[k][1].profit = Max(LongProfitOf(markets[k]), ShortProfitOf(markets[k]))
                   /\ analyses[k][1].type = "long"
                          => LongProfitOf(markets[k]) >= ShortProfitOf(markets[k])
                   /\ analyses[k][1].type = "short"
                          => ShortProfitOf(markets[k]) > LongProfitOf(markets[k])

\* C7 witness: a scan met a market for which both conditions hold with the long
\* profit higher, and another for which the short profit is higher; each gave one
\* opportunity.
C7_Witness ==
    /\ dpc = "done"
    /\ \E k \in DOMAIN analyses :
          /\ BothConditions(markets[k])
          /\ LongProfitOf(markets[k]) > ShortProfitOf(markets[k])
          /\ \E i \in DOMAIN opportunities :
                opportunities[i].market = k /\ opportunities[i].type = "long"
    /\ \E k \in DOMAIN analyses :
          /\ BothConditions(markets[k])
          /\ ShortProfitOf(markets[k]) > LongProfitOf(markets[k])
          /\ \E i \in DOMAIN opportunities :
                opportunities[i].market = k /\ opportunities[i].type = "short"

\* The opportunities scan_markets owes for the listing it fetched: what
\* analyze_market returns for the markets on which it does not raise, if it meets
\* the minimum profit.
Owed ==
    { AnalyzeMarket(markets[k])[1] :
        k \in { j \in DOMAIN markets : /\ ~AnalysisRaises(markets[j])
                                       /\ Qualifies(AnalyzeMarket(markets[j])) } }

\* C20: when analysing a market of the listing fails, the scan goes on: every
\* market of the listing is analysed, those after the failing one included, and
\* the returned list holds exactly the qualifying opportunities of the markets
\* whose analysis did not fail.
C20_ScanSurvivesAnalysisError ==
    (dpc = "done" /\ \E k \in DOMAIN markets : AnalysisRaises(markets[k])) =>
        /\ Len(analyses) = Len(markets)
        /\ \A k \in DOMAIN markets :
               analyses[k] = IF AnalysisRaises(markets[k]) THEN <<AnalysisError(markets[k])>>
                             ELSE AnalyzeMarket(markets[k])
        /\ { opportunities[i] : i \in DOMAIN opportunities } = Owed
        /\ Len(opportunities) = Cardinality(Owed)

\* C20 witness: the analysis of the first market of a listing failed, and the two
\* markets after it each gave an opportunity of the returned list.
C20_Witness ==
    /\ dpc = "done"
    /\ Len(markets) = 3
    /\ AnalysisRaises(markets[1])
    /\ Len(opportunities) = 2
    /\ {opportunities[1].market, opportunities[2].market} = {2, 3}

(***************************************************************************)
(* Exact rational arithmetic for amounts, share counts and money.          *)
(* <<n, d>> with d > 0 and gcd(n, d) = 1 stands for n / d.                 *)
(***************************************************************************)

Abs(n) == IF n < 0 THEN -n ELSE n

RECURSIVE GCD(_, _)
GCD(a, b) == IF b = 0 THEN a ELSE GCD(b, a % b)

Norm(n, d) == LET g == GCD(Abs(n), d) IN <<n \div g, d \div g>>

Zero == <<0, 1>>
RatAdd(x, y) == Norm(x[1] * y[2] + y[1] * x[2], x[2] * y[2])
RatSub(x, y) == Norm(x[1] * y[2] - y[1] * x[2], x[2] * y[2])
RatMul(x, y) == Norm(x[1] * y[1], x[2] * y[2])
\* x / y for y > 0
RatDiv(x, y) == Norm(x[1] * y[2], x[2] * y[1])
RatLE(x, y) == x[1] * y[2] <= y[1] * x[2]
RatLT(x, y) == x[1] * y[2] < y[1] * x[2]
RatMin(x, y) == IF RatLE(x, y) THEN x ELSE y

\* A price in mills as dollars.
Mills(p) == Norm(p, Dollar)

(***************************************************************************)
(* PolymarketClientService.create_market_order and redeem                  *)
(***************************************************************************)

Exc(kind, msg) == [kind |-> kind, msg |-> msg]
NoExc == Exc("", "")

\* A variant of CreateMarketOrder that simulates a fill whatever the mode.
CreateMarketOrderSimulated(cfg) ==
    IF RatLE(cfg.shares, Zero)
    THEN [ok |-> FALSE, order |-> NoOrder, exc |-> Exc("ValueError", "shares must be > 0")]
    ELSE IF ~(0 < cfg.expected_price /\ cfg.expected_price < Dollar)
    THEN [ok |-> FALSE, order |-> NoOrder,
          exc |-> Exc("ValueError", "expected_price must be in (0, 1)")]
    ELSE [ok |-> TRUE,
          order |-> [market |-> cfg.market, outcome |-> cfg.outcome, side |-> cfg.side,
                     filled_price |-> cfg.expected_price, shares |-> cfg.shares],
          exc |-> NoExc]

\* create_market_order: either the Order of a simulated fill or the exception raised.
CreateMarketOrder(cfg) ==
    IF RatLE(cfg.shares, Zero)
    THEN [ok |-> FALSE, order |-> NoOrder, exc |-> Exc("ValueError", "shares must be > 0")]
    ELSE IF ~(0 < cfg.expected_price /\ cfg.expected_price < Dollar)
    THEN [ok |-> FALSE, order |-> NoOrder,
          exc |-> Exc("ValueError", "expected_price must be in (0, 1)")]
    ELSE IF paper_trading \/ mock_mode
    THEN [ok |-> TRUE,
          order |-> [market |-> cfg.market, outcome |-> cfg.outcome, side |-> cfg.side,
                     filled_price |-> cfg.expected_price, shares |-> cfg.shares],
          exc |-> NoExc]
    ELSE IF ~client_ready
    THEN [ok |-> FALSE, order |-> NoOrder,
          exc |-> Exc("RuntimeError", "Polymarket client not initialized")]
    ELSE [ok |-> FALSE, order |-> NoOrder,
          exc |-> Exc("NotImplementedError",
                      "Real trading is not enabled in this repository by default.")]

\* A variant of Redeem that pays nothing for the complete sets.
RedeemNothing(yes_shares, no_shares) == [ok |-> TRUE, value |-> Zero, exc |-> NoExc]

\* redeem: the value of the complete sets, or the exception raised.
Redeem(yes_shares, no_shares) ==
    IF paper_trading \/ mock_mode
    THEN [ok |-> TRUE,
          value |-> IF RatLE(yes_shares, Zero) \/ RatLE(no_shares, Zero) THEN Zero
                    ELSE RatMin(yes_shares, no_shares),
          exc |-> NoExc]
    ELSE IF ~client_ready
    THEN [ok |-> FALSE, value |-> Zero,
          exc |-> Exc("RuntimeError", "Polymarket client not initialized")]
    ELSE [ok |-> FALSE, value |-> Zero,
          exc |-> Exc("NotImplementedError",
                      "On-chain redeem/merge is not enabled in this repository by default.")]

(***************************************************************************)
(* ArbitragePureExecutor.execute                                           *)
(***************************************************************************)

\* The exception classes `except Exception` catches, of those the code raises.
ExceptionSubclasses == {"ValueError", "RuntimeError", "NotImplementedError"}

\* A variant of Caught for a handler written `except ValueError`.
CaughtValueErrorOnly(e) == e.kind = "ValueError"

\* except Exception as e
Caught(e) == e.kind \in ExceptionSubclasses

\* The ExecutionResult of the except branch.
FailureResult(e) ==
    [market |-> arb.market, type |-> arb.type, invested |-> amount, received |-> Zero,
     profit |-> Zero, success |-> FALSE, error |-> <<e.msg>>]

\* The ExecutionResult of the try branch; error is None.
SuccessResult(invested, received, profit) ==
    [market |-> arb.market, type |-> arb.type, invested |-> invested, received |-> received,
     profit |-> profit, success |-> TRUE, error |-> <<>>]

\* An exception raised inside the try block: the handler returns a failed result;
\* an exception it does not catch leaves execute.
Raise(e) ==
    IF Caught(e)
    THEN epc' = "done" /\ result' = <<FailureResult(e)>>
    ELSE epc' = "raised" /\ result' = <<>>

\* A variant of LongShares that takes the amount as the share count.
LongSharesNoDivision(amt, sum_price) == amt

\* long: shares = amount / sum_price
LongShares(amt, sum_price) == RatDiv(amt, Mills(sum_price))

\* A variant of ShortShares that divides by the combined price as the long path does.
ShortSharesDivided(amt, sum_price) == RatDiv(amt, Mills(sum_price))

\* short: shares = amount
ShortShares(amt, sum_price) == amt

LegCfg(outcome, side, shares, price) ==
    [market |-> arb.market, outcome |-> outcome, side |-> side, shares |-> shares,
     expected_price |-> price]

\* yes_order.shares * yes_order.filled_price + no_order.shares * no_order.filled_price
FilledValue(yes_order, no_order) ==
    RatAdd(RatMul(yes_order.shares, Mills(yes_order.filled_price)),
           RatMul(no_order.shares, Mills(no_order.filled_price)))

\* The prices and amounts execute is called with.
ExecPriceVals == {0, 20, 480, 490, 500, 520, 1000}
AmountVals == {<<-1, 1>>, Zero, <<7, 2>>, <<10, 1>>}

\* The flags of the client and whether its CLOB client was built: in simulation
\* initialize() returns before building one.
ClientModes ==
    {c \in [paper : BOOLEAN, mock : BOOLEAN, ready : BOOLEAN] : (c.paper \/ c.mock) => ~c.ready}

InitExec ==
    /\ \E t \in {"long", "short"}, yp \in ExecPriceVals, np \in ExecPriceVals :
          arb = [type |-> t, market |-> 1,
                 profit |-> IF t = "long" THEN Max(0, Dollar - (yp + np))
                            ELSE Max(0, (yp + np) - Dollar),
                 yes_price |-> yp, no_price |-> np]
    /\ amount \in AmountVals
    /\ \E c \in ClientModes :
          paper_trading = c.paper /\ mock_mode = c.mock /\ client_ready = c.ready
    /\ epc = "idle"
    /\ legs = [o \in Outcomes |-> NoLeg]
    /\ orders = <<>>
    /\ firstError = <<>>
    /\ redeemCalls = <<>>
    /\ result = <<>>
    /\ max_calls = 0
    /\ FreshLimiter
    /\ DefaultDetector
    /\ NoAnalysis
    /\ NoScan
    /\ NoGateway
    /\ NoLib
    /\ NoBot

\* execute is called: the two checks, then both legs are handed to asyncio.gather,
\* which starts a task for each before execute suspends.
ExecCall ==
    /\ epc = "idle"
    /\ LET sum_price == arb.yes_price + arb.no_price
           side == IF arb.type = "long" THEN "BUY" ELSE "SELL"
           shares == IF arb.type = "long" THEN LongShares(amount, sum_price)
                     ELSE ShortShares(amount, sum_price)
       IN  IF RatLE(amount, Zero)
           THEN Raise(Exc("ValueError", "amount must be > 0")) /\ UNCHANGED legs
           ELSE IF sum_price <= 0
           THEN Raise(Exc("ValueError", "invalid prices")) /\ UNCHANGED legs
           ELSE /\ epc' = "legs"
                /\ legs' = [o \in Outcomes |->
                              [status |-> "pending",
                               cfg |-> LegCfg(o, side, shares,
                                              IF o = "YES" THEN arb.yes_price ELSE arb.no_price),
                               order |-> NoOrder]]
                /\ UNCHANGED result
    /\ UNCHANGED <<arb, amount, orders, firstError, redeemCalls, clientvars>>
    /\ UNCHANGED notExec

\* One leg's create_market_order task runs (it has no suspension point of its own).
LegRuns(o) ==
    /\ epc = "legs"
    /\ legs[o].status = "pending"
    /\ LET r == CreateMarketOrder(legs[o].cfg)
       IN  /\ orders' = Append(orders, legs[o].cfg)
           /\ legs' = [legs EXCEPT ![o].status = IF r.ok THEN "filled" ELSE "failed",
                                   ![o].order = r.order]
           /\ firstError' = IF ~r.ok /\ firstError = <<>> THEN <<r.exc>> ELSE firstError
    /\ UNCHANGED <<arb, amount, epc, redeemCalls, result, clientvars>>
    /\ UNCHANGED notExec

\* A variant of GatherDone that resumes execute as soon as one leg is over.
GatherDoneOnFirst == \E o \in Outcomes : legs[o].status \in {"filled", "failed"}

\* `await asyncio.gather(...)` resumes execute when both leg tasks are over.
GatherDone == \A o \in Outcomes : legs[o].status \in {"filled", "failed"}

\* The gather is over and execute resumes: it re-raises a leg's exception, or
\* redeems, computes the profit and returns.
ExecJoin ==
    /\ epc = "legs"
    /\ GatherDone
    /\ IF firstError # <<>>
       THEN Raise(firstError[1]) /\ UNCHANGED redeemCalls
       ELSE LET yes_order == legs["YES"].order
                no_order == legs["NO"].order
                invested == amount
            IN  IF arb.type = "long"
                THEN LET red == Redeem(yes_order.shares, no_order.shares)
                     IN  /\ redeemCalls' = Append(redeemCalls, <<yes_order.shares, no_order.shares>>)
                         /\ IF red.ok
                            THEN /\ epc' = "done"
                                 /\ result' = <<SuccessResult(invested, red.value,
                                                              RatSub(red.value, invested))>>
                            ELSE Raise(red.exc)
                ELSE LET received == FilledValue(yes_order, no_order)
                         red == Redeem(Zero, Zero)
                     IN  /\ redeemCalls' = Append(redeemCalls, <<Zero, Zero>>)
                         /\ IF red.ok
                            THEN /\ epc' = "done"
                                 /\ result' = <<SuccessResult(invested, received,
                                                              RatSub(received, invested))>>
                            ELSE Raise(red.exc)
    /\ UNCHANGED <<arb, amount, legs, orders, firstError, clientvars>>
    /\ UNCHANGED notExec

NextExec ==
    \/ ExecCall /\ UNCHANGED loopvars
    \/ \E o \in Outcomes : LegRuns(o) /\ UNCHANGED loopvars
    \/ ExecJoin /\ UNCHANGED loopvars

SpecExec == InitExec /\ [][NextExec]_vars

Simulation == paper_trading \/ mock_mode

\* C8: execute never lets an exception out: every call ends with an ExecutionResult,
\* and when the amount is <= 0, the combined leg price is <= 0, a leg submission
\* failed or redeem failed, the result has success = false, profit = 0, received = 0
\* and a non-empty error text.
C8_AlwaysAResult ==
    /\ epc # "raised"
    /\ epc = "done" => Len(result) = 1
    /\ (/\ epc = "done"
        /\ \/ RatLE(amount, Zero)
           \/ arb.yes_price + arb.no_price <= 0
           \/ \E o \in Outcomes : legs[o].status = "failed"
           \/ (redeemCalls # <<>> /\ ~Simulation))
       => /\ result[1].success = FALSE
          /\ result[1].profit = Zero
          /\ result[1].received = Zero
          /\ result[1].error # <<>>
          /\ result[1].error[1] # ""

\* C8 witness: in live mode a leg raised NotImplementedError and execute returned a
\* failed result carrying its text.
C8_Witness ==
    /\ epc = "done"
    /\ ~Simulation /\ client_ready
    /\ RatLT(Zero, amount)
    /\ legs["YES"].status = "failed" /\ legs["NO"].status = "failed"
    /\ Len(result) = 1
    /\ result[1].success = FALSE
    /\ result[1].invested = amount
    /\ result[1].error = <<"Real trading is not enabled in this repository by default.">>

\* C28: the two leg submissions are started together, before either is awaited
\* or has run; redeem is called only when both legs are over and both filled; when
\* a leg failed the execution ends with success = false and profit = 0, without a
\* redeem call; and each leg is submitted at most once.
C28_LegsTogether ==
    /\ (\E o \in Outcomes : legs[o].status # "none") =>
           \A o \in Outcomes : legs[o].status # "none"
    /\ orders # <<>> => \A o \in Outcomes : legs[o].status # "none"
    /\ redeemCalls # <<>> => \A o \in Outcomes : legs[o].status = "filled"
    /\ Len(redeemCalls) <= 1
    /\ \A o \in Outcomes : Cardinality({i \in DOMAIN orders : orders[i].outcome = o}) <= 1
    /\ (epc = "done" /\ \E o \in Outcomes : legs[o].status = "failed") =>
           /\ \A o \in Outcomes : legs[o].status # "pending"
           /\ result[1].success = FALSE
           /\ result[1].profit = Zero
           /\ redeemCalls = <<>>

\* C28 witness: the YES leg was refused (its price is not under $1) while the NO
\* leg filled; execute returned a failure, with both legs submitted once and no
\* redeem call.
C28_Witness ==
    /\ epc = "done"
    /\ Simulation
    /\ legs["YES"].status = "failed"
    /\ legs["NO"].status = "filled"
    /\ Len(orders) = 2
    /\ redeemCalls = <<>>
    /\ result[1].success = FALSE
    /\ result[1].profit = Zero

\* A long opportunity: both leg prices positive and their sum under $1.
IsLongOpportunity(a) ==
    a.type = "long" /\ a.yes_price > 0 /\ a.no_price > 0 /\ a.yes_price + a.no_price < Dollar

\* A short opportunity: both leg prices positive and their sum over $1.
IsShortOpportunity(a) ==
    a.type = "short" /\ a.yes_price > 0 /\ a.no_price > 0 /\ a.yes_price + a.no_price > Dollar

\* The two orders of one execution: one YES and one NO of the given side, each at
\* its own leg price.
TwoOrders(side) ==
    /\ Len(orders) = 2
    /\ {orders[1].outcome, orders[2].outcome} = Outcomes
    /\ \A i \in 1..2 :
          /\ orders[i].side = side
          /\ orders[i].expected_price =
                 IF orders[i].outcome = "YES" THEN arb.yes_price ELSE arb.no_price

\* C9: a long opportunity executed in simulation with amount > 0 submits exactly two
\* BUY orders, YES at yes_price and NO at no_price, each for amount / (yes_price +
\* no_price) shares, and returns success with invested = amount, received = the
\* smaller of the two filled share counts and profit = received - amount.
C9_LongExecution ==
    (epc = "done" /\ IsLongOpportunity(arb) /\ Simulation /\ RatLT(Zero, amount))
    => /\ TwoOrders("BUY")
       /\ \A i \in 1..2 :
             RatMul(orders[i].shares, Mills(arb.yes_price + arb.no_price)) = amount
       /\ Len(result) = 1
       /\ result[1].success = TRUE
       /\ result[1].invested = amount
       /\ result[1].received = RatMin(legs["YES"].order.shares, legs["NO"].order.shares)
       /\ RatAdd(result[1].profit, amount) = result[1].received
       /\ RatLT(Zero, result[1].profit)

\* C9 witness: amount 10 at prices 0.48 / 0.49 returned profit 10/0.97 - 10 = 30/97.
C9_Witness ==
    /\ epc = "done"
    /\ arb.type = "long" /\ arb.yes_price = 480 /\ arb.no_price = 490
    /\ paper_trading /\ mock_mode
    /\ amount = <<10, 1>>
    /\ result = <<[market |-> 1, type |-> "long", invested |-> <<10, 1>>,
                   received |-> <<1000, 97>>, profit |-> <<30, 97>>, success |-> TRUE,
                   error |-> <<>>]>>

\* What C10 says of a finished short execution: two SELL orders of `amount` shares,
\* success, received = amount * yes_price + amount * no_price, profit = received -
\* amount, and a redeem call on (0, 0) that changes nothing.
ShortExecutionOutcome ==
    /\ TwoOrders("SELL")
    /\ \A i \in 1..2 : orders[i].shares = amount
    /\ Len(result) = 1
    /\ result[1].success = TRUE
    /\ result[1].invested = amount
    /\ result[1].received = RatAdd(RatMul(amount, Mills(arb.yes_price)),
                                   RatMul(amount, Mills(arb.no_price)))
    /\ RatAdd(result[1].profit, amount) = result[1].received
    /\ redeemCalls = << <<Zero, Zero>> >>

\* C10 as stated: every short opportunity executed in simulation with amount > 0
\* ends as ShortExecutionOutcome says.
C10_AsStated ==
    (epc = "done" /\ IsShortOpportunity(arb) /\ Simulation /\ RatLT(Zero, amount))
    => ShortExecutionOutcome

\* C10, amended: a short opportunity whose two leg prices are both below $1, executed
\* in simulation with amount > 0, ends as ShortExecutionOutcome says.
C10_ShortExecution ==
    (/\ epc = "done"
     /\ IsShortOpportunity(arb)
     /\ arb.yes_price < Dollar /\ arb.no_price < Dollar
     /\ Simulation
     /\ RatLT(Zero, amount))
    => ShortExecutionOutcome

\* C10 witness: amount 10 at prices 0.52 / 0.50 returned received 10.2, profit 0.2.
C10_Witness ==
    /\ epc = "done"
    /\ arb.type = "short" /\ arb.yes_price = 520 /\ arb.no_price = 500
    /\ Simulation
    /\ amount = <<10, 1>>
    /\ Len(orders) = 2
    /\ result = <<[market |-> 1, type |-> "short", invested |-> <<10, 1>>,
                   received |-> <<51, 5>>, profit |-> <<1, 5>>, success |-> TRUE,
                   error |-> <<>>]>>


(***************************************************************************)
(* ArbitrageBotService._position_amount                                    *)
(***************************************************************************)

One == <<1, 1>>

\* A variant of PositionAmount that returns the size without clamping it to the
\* balance.
PositionAmountNoClamp(bal, size) ==
    IF RatLE(bal, Zero) THEN Zero
    ELSE IF RatLT(Zero, size) /\ RatLE(size, One) THEN RatMul(bal, size) ELSE size

\* A variant of PositionAmount that puts the whole balance into every execution.
PositionAmountAllIn(bal, size) == IF RatLE(bal, Zero) THEN Zero ELSE bal

\* _position_amount(): 0 without capital; a size in (0, 1] is a fraction of the
\* balance; the result is min(size, balance).
PositionAmount(bal, size) ==
    IF RatLE(bal, Zero) THEN Zero
    ELSE LET s == IF RatLT(Zero, size) /\ RatLE(size, One) THEN RatMul(bal, size) ELSE size
         IN  RatMin(s, bal)

\* The balances and the configured sizes _position_amount is called with.
BalanceVals == {<<-5, 1>>, Zero, <<1, 2>>, One, <<50, 1>>, <<100, 1>>, <<150, 1>>, <<200, 1>>}
SizeVals == {Zero, <<1, 10>>, <<1, 2>>, One, <<3, 2>>, <<10, 1>>, <<100, 1>>, <<150, 1>>}

InitSizing ==
    /\ balance \in BalanceVals
    /\ position_size \in SizeVals
    /\ position_amount = <<>>
    /\ execution_delay_ms = 0
    /\ running = FALSE
    /\ trade_logs = <<>>
    /\ stop_event = "none"
    /\ cycle_count = 0
    /\ bpc = "none"
    /\ idx = 0
    /\ cancelling = FALSE
    /\ mpc = "none"
    /\ cycle_error = FALSE
    /\ stop_called = FALSE
    /\ stops = 0
    /\ expired = {}
    /\ ready = <<>>
    /\ todo = 0
    /\ wake = "none"
    /\ max_calls = 0
    /\ FreshLimiter
    /\ DefaultDetector
    /\ NoAnalysis
    /\ NoScan
    /\ DefaultClient
    /\ NoExecution
    /\ NoGateway
    /\ NoLib

\* One call of _position_amount().
PositionAmountCall ==
    /\ position_amount = <<>>
    /\ position_amount' = <<PositionAmount(balance, position_size)>>
    /\ UNCHANGED <<position_size, execution_delay_ms, running, balance, trade_logs,
                   stop_event, cycle_count, bpc, idx, cancelling, mpc, cycle_error,
                   stop_called, stops, expired>>
    /\ UNCHANGED notSizing

NextSizing == PositionAmountCall

SpecSizing == InitSizing /\ [][NextSizing]_vars

\* C11: _position_amount returns 0 when the balance is <= 0; otherwise
\* min(balance, s), where s is balance * size for a configured size in (0, 1] and
\* the size itself for a larger one.  Balance 100: size 0.1 gives 10 and size 150
\* gives 100; balance 0 gives 0.
C11_PositionAmount ==
    position_amount # <<>> =>
        LET r == position_amount[1]
        IN  /\ RatLE(balance, Zero) => r = Zero
            /\ RatLT(Zero, balance) /\ RatLT(Zero, position_size) /\ RatLE(position_size, One)
                  => r = RatMin(balance, RatMul(balance, position_size))
            /\ RatLT(Zero, balance) /\ RatLT(One, position_size)
                  => r = RatMin(balance, position_size)
            /\ balance = <<100, 1>> /\ position_size = <<1, 10>> => r = <<10, 1>>
            /\ balance = <<100, 1>> /\ position_size = <<150, 1>> => r = <<100, 1>>
            /\ balance = Zero => r = Zero

\* C11 witness: with balance 100 and the absolute size 150 the call returned the
\* balance.
C11_Witness ==
    /\ balance = <<100, 1>>
    /\ position_size = <<150, 1>>
    /\ position_amount = <<<<100, 1>>>>


(***************************************************************************)
(* PolymarketClientService.get_top_markets: the paginated live listing     *)
(***************************************************************************)

\* Bounds: the largest limit asked for and the number of pages the endpoint
\* answers before the listing ends.
MaxLimit == 3
MaxPages == 3

\* page_size = min(500, max(1, limit))
MaxPageSize == 500
PageSize(lim) == Min(MaxPageSize, Max(1, lim))

\* A raw item of a page.  id stands for the identifier fields (0: none of them is
\* present), prices for what _extract_yes_no_prices returns (<<>> for None).
RawItem(id, is_dict, act, prices) ==
    [id |-> id, is_dict |-> is_dict, active |-> act, prices |-> prices, volume |-> 50000]

GoodPrices == <<470, 480, 480, 490>>

\* The k-th kind of raw item under the identifier id: one that normalizes, and the
\* ways _parse_binary_market drops an item.
ItemOfKind(kind, id) ==
    CASE kind = "good"      -> RawItem(id, TRUE, TRUE, GoodPrices)
      [] kind = "not_dict"  -> RawItem(id, FALSE, TRUE, GoodPrices)
      [] kind = "inactive"  -> RawItem(id, TRUE, FALSE, GoodPrices)
      [] kind = "no_id"     -> RawItem(0, TRUE, TRUE, GoodPrices)
      [] kind = "no_prices" -> RawItem(id, TRUE, TRUE, <<>>)
      [] OTHER              -> RawItem(id, TRUE, TRUE, <<0, 480, 480, 490>>)

DroppedKinds == <<"not_dict", "inactive", "no_id", "no_prices", "zero_price">>

\* A variant of ParseBinaryMarket that keeps every item that is a dict with an
\* identifier.
ParseBinaryMarketLax(m) ==
    IF ~m.is_dict \/ m.id = 0 THEN <<>>
    ELSE <<[market |-> m.id, volume |-> m.volume,
            yes_bid |-> IF m.prices = <<>> THEN 0 ELSE m.prices[1],
            yes_ask |-> IF m.prices = <<>> THEN 0 ELSE m.prices[2],
            no_bid |-> IF m.prices = <<>> THEN 0 ELSE m.prices[3],
            no_ask |-> IF m.prices = <<>> THEN 0 ELSE m.prices[4],
            active |-> TRUE, bad_volume |-> FALSE]>>

\* _parse_binary_market: <<>> for None, <<BinaryMarket>> otherwise.
ParseBinaryMarket(m) ==
    IF ~m.is_dict THEN <<>>
    ELSE IF ~m.active THEN <<>>
    ELSE IF m.id = 0 THEN <<>>
    ELSE IF m.prices = <<>> THEN <<>>
    ELSE IF Min(Min(m.prices[1], m.prices[2]), Min(m.prices[3], m.prices[4])) <= 0 THEN <<>>
    ELSE <<[market |-> m.id, volume |-> m.volume, yes_bid |-> m.prices[1],
            yes_ask |-> m.prices[2], no_bid |-> m.prices[3], no_ask |-> m.prices[4],
            active |-> TRUE, bad_volume |-> FALSE]>>

\* What the endpoint answers to a page request: a list, a dict holding the list
\* under "markets", a payload that holds no list, or a failure of the request
\* (network error, or a non-2xx status on which raise_for_status raises).
Response(kind, items) == [kind |-> kind, items |-> items]

\* The answers of the model, by shape, for the page number k and the page size ps:
\* full pages and a short one, of items that normalize; in a dropping page the
\* first two items are ones _parse_binary_market drops.
PageShapes == {"error", "no_list", "empty", "full", "full_dropping", "short", "dict_full_dropping"}

PageOfShape(shape, k, ps) ==
    LET id(i) == 10 * k + i
        good(n) == [i \in 1..n |-> ItemOfKind("good", id(i))]
        dropping(n) == [i \in 1..n |->
                           IF i = 1 THEN ItemOfKind(DroppedKinds[IF k % 2 = 1 THEN 1 ELSE 3], id(i))
                           ELSE IF i = 2 THEN ItemOfKind(DroppedKinds[IF k = 1 THEN 4 ELSE IF k = 2 THEN 5 ELSE 2], id(i))
                           ELSE ItemOfKind("good", id(i))]
    IN  CASE shape = "error"   -> Response("error", <<>>)
          [] shape = "no_list" -> Response("no_list", <<>>)
          [] shape = "empty"   -> Response("list", <<>>)
          [] shape = "full"    -> Response("list", good(ps))
          [] shape = "full_dropping" -> Response("list", dropping(ps))
          [] shape = "short"   -> Response("list", good(ps - 1))
          [] OTHER             -> Response("dict", dropping(ps))

\* The answer to the k-th page request; past the pages of the model the listing
\* has ended.
Answer(k) == IF k <= Len(upstream) THEN upstream[k] ELSE Response("list", <<>>)

\* if not isinstance(items, list) or not items: break
StopsPaging(resp) == resp.kind \notin {"list", "dict"} \/ resp.items = <<>>

\* for m in items: append what normalizes, up to the limit.
RECURSIVE ParseAll(_)
ParseAll(items) ==
    IF items = <<>> THEN <<>> ELSE ParseBinaryMarket(Head(items)) \o ParseAll(Tail(items))

\* markets[:limit]
Truncate(ms, lim) == SubSeq(ms, 1, Min(Len(ms), Max(lim, 0)))

InitGateway ==
    /\ limit \in 0..MaxLimit
    /\ \E n \in 0..MaxPages : \E shapes \in [1..n -> PageShapes] :
          upstream = [k \in 1..n |-> PageOfShape(shapes[k], k, PageSize(limit))]
    /\ gmarkets = <<>>
    /\ offset = 0
    /\ requests = <<>>
    /\ gpc = "idle"
    /\ gresult = <<>>
    /\ paper_trading = TRUE
    /\ mock_mode = FALSE
    /\ client_ready = FALSE
    /\ max_calls = 0
    /\ FreshLimiter
    /\ DefaultDetector
    /\ NoAnalysis
    /\ NoScan
    /\ NoExecution
    /\ NoLib
    /\ NoBot

\* get_top_markets is called with mock_mode off: lines 70-72.
GetTopMarkets ==
    /\ gpc = "idle"
    /\ ~mock_mode
    /\ gmarkets' = <<>>
    /\ offset' = 0
    /\ gpc' = "paging"
    /\ UNCHANGED <<limit, upstream, requests, gresult>>
    /\ UNCHANGED notGateway

\* `while len(markets) < limit`: the next page is requested (and the call suspends
\* in _gamma_get_json), or the loop ends and markets[:limit] is returned.
PageRequest ==
    /\ gpc = "paging"
    /\ IF Len(gmarkets) < limit
       THEN /\ requests' = Append(requests, [limit |-> PageSize(limit), offset |-> offset])
            /\ gpc' = "awaiting"
            /\ UNCHANGED gresult
       ELSE /\ gresult' = Truncate(gmarkets, limit)
            /\ gpc' = "returned"
            /\ UNCHANGED requests
    /\ UNCHANGED <<limit, upstream, gmarkets, offset>>
    /\ UNCHANGED notGateway

\* _gamma_get_json returns or raises: lines 76-90.  Nothing in get_top_markets
\* catches what it raises.
PageResponse ==
    /\ gpc = "awaiting"
    /\ LET resp == Answer(Len(requests))
           items == resp.items
       IN  IF resp.kind = "error"
           THEN /\ gpc' = "raised"
                /\ UNCHANGED <<gmarkets, offset, gresult>>
           ELSE IF StopsPaging(resp)
           THEN /\ gresult' = Truncate(gmarkets, limit)
                /\ gpc' = "returned"
                /\ UNCHANGED <<gmarkets, offset>>
           ELSE LET ms == Truncate(gmarkets \o ParseAll(items), limit)
                IN  /\ gmarkets' = ms
                    /\ offset' = offset + Len(items)
                    /\ IF Len(items) < PageSize(limit)
                       THEN gresult' = Truncate(ms, limit) /\ gpc' = "returned"
                       ELSE gpc' = "paging" /\ UNCHANGED gresult
    /\ UNCHANGED <<limit, upstream, requests>>
    /\ UNCHANGED notGateway

NextGateway ==
    \/ GetTopMarkets
    \/ PageRequest
    \/ PageResponse

SpecGateway == InitGateway /\ [][NextGateway]_vars

\* An item _parse_binary_market keeps: an active dict with an identifier and four
\* positive prices.
Normalizes(m) ==
    /\ m.is_dict /\ m.active /\ m.id # 0 /\ m.prices # <<>>
    /\ \A i \in 1..4 : m.prices[i] > 0

\* The identifiers of the items of the first k answers that normalize, in order.
RECURSIVE KeptIds(_)
KeptIds(items) ==
    IF items = <<>> THEN <<>>
    ELSE (IF Normalizes(Head(items)) THEN <<Head(items).id>> ELSE <<>>) \o KeptIds(Tail(items))

RECURSIVE GatheredBefore(_)
GatheredBefore(k) ==
    IF k <= 1 THEN <<>> ELSE GatheredBefore(k - 1) \o KeptIds(Answer(k - 1).items)

\* C18 as stated: a failing page request never makes get_top_markets raise; it
\* returns the markets of the earlier pages.
C18_AsStated ==
    /\ gpc # "raised"
    /\ (gpc = "returned" /\ requests # <<>> /\ Answer(Len(requests)).kind = "error")
          => [i \in DOMAIN gresult |-> gresult[i].market] = GatheredBefore(Len(requests))

\* The state C18 is about: the request of a page after the first failed.
C18_Case ==
    /\ Len(requests) >= 2
    /\ Answer(Len(requests)).kind = "error"
    /\ gpc \in {"raised", "returned"}

MaxTrades == 1
MaxStops == 1
CycleWrap == 2

\* The callbacks of BaseEventLoop._ready.
BotTok == <<"bot">>                  \* a step of the task running start()
LegTok(o) == <<"leg", o>>            \* the first step of a leg's task
GatherTok(o) == <<"gather", o>>      \* gather's _done_callback for a leg
ReadFromSelfTok == <<"read_from_self">>  \* the loop reads the signal's wakeup byte
RequestStopTok == <<"request_stop">> \* the signal handler _request_stop
StopTok == <<"stop">>                \* some other callback that calls bot.stop()
TimerTok == <<"timer">>              \* the timer handle of the task's sleep
MainTok == <<"main">>                \* a step of arbitrage_pure_main

InQueue(tok) == \E i \in DOMAIN ready : ready[i] = tok

\* The waits of the task that end on a timer alone (asyncio.sleep), and all of them.
SleepWaits == {"cooldown", "delay", "postcycle"}
Waits == SleepWaits \cup {"interval"}
Finished == {"returned", "raised", "cancelled"}

\* The task is between two suspension points: nothing else runs.
BotRunning ==
    \/ bpc \in {"loop", "iterate"}
    \/ bpc = "scan" /\ dpc \in {"idle", "done"}
    \/ bpc = "execute" /\ epc \in {"idle", "done", "raised"}

LoopFree == ~BotRunning /\ mpc # "done"

\* A sleep's timer is armed and has not fired.
TimerPending ==
    /\ bpc \in Waits
    /\ wake = "none"
    /\ ~(bpc = "delay" /\ execution_delay_ms = 0)
    /\ ~InQueue(TimerTok)

\* The listings a scan is answered with: markets 1.. hold a long arbitrage that
\* fills, a short one that create_market_order rejects (a bid of $1), and a market
\* without arbitrage.
LongQuote == Quote(470, 480, 480, 490, 50000, TRUE)
RejectedQuote == Quote(1000, 1000, 20, 30, 50000, TRUE)
FlatQuote == Quote(490, 500, 500, 510, 50000, TRUE)

Listing(qs) == [i \in DOMAIN qs |-> MarketOf(qs[i], i)]

QuietListings == {Listing(<<>>), Listing(<<FlatQuote>>), Listing(<<RejectedQuote>>)}
BotListings == QuietListings \cup {Listing(<<LongQuote>>), Listing(<<RejectedQuote, LongQuote>>)}

StartingCapitals == {Zero, <<100, 1>>}
ExecutionDelays == {0, 1000}

\* No call of scan_markets, or of execute, is in progress in the task and none has
\* left a value the task still holds.
NoScanCall(var_feed, var_markets, var_analyses, var_opportunities, var_dpc) ==
    /\ var_feed = <<>>
    /\ var_markets = <<>>
    /\ var_analyses = <<>>
    /\ var_opportunities = <<>>
    /\ var_dpc = "none"

NoExecCall(var_arb, var_amount, var_epc, var_legs, var_orders, var_firstError, var_redeemCalls, var_result) ==
    /\ var_arb = [type |-> "long", market |-> 0, profit |-> 0, yes_price |-> 0, no_price |-> 0]
    /\ var_amount = Zero
    /\ var_epc = "none"
    /\ var_legs = [o \in Outcomes |-> NoLeg]
    /\ var_orders = <<>>
    /\ var_firstError = <<>>
    /\ var_redeemCalls = <<>>
    /\ var_result = <<>>

\* arbitrage_pure_main has created the task of start() and waits for its stop event.
InitBot ==
    /\ balance \in StartingCapitals
    /\ position_size = <<10, 1>>
    /\ execution_delay_ms \in ExecutionDelays
    /\ paper_trading \in BOOLEAN
    /\ mock_mode = FALSE
    /\ client_ready = FALSE
    /\ running = FALSE
    /\ trade_logs = <<>>
    /\ stop_event = "none"
    /\ cycle_count = 0
    /\ position_amount = <<>>
    /\ bpc = "created"
    /\ idx = 0
    /\ cancelling = FALSE
    /\ mpc = "wait_stop"
    /\ cycle_error = FALSE
    /\ stop_called = FALSE
    /\ stops = 0
    /\ expired = {}
    /\ ready = <<BotTok>>
    /\ todo = 0
    /\ wake = "start"
    /\ DefaultDetector
    /\ NoScanCall(feed, markets, analyses, opportunities, dpc)
    /\ NoExecCall(arb, amount, epc, legs, orders, firstError, redeemCalls, result)
    /\ max_calls = 0
    /\ FreshLimiter
    /\ NoAnalysis
    /\ NoGateway
    /\ NoLib

\* BaseEventLoop._run_once between two batches: what arrived while the loop was
\* selecting is queued (the signal's wakeup byte first, then the due timer), and
\* the callbacks now in the queue make the next batch.
RunOnce ==
    /\ LoopFree
    /\ todo = 0
    /\ \E sig \in BOOLEAN, stp \in BOOLEAN, tmr \in BOOLEAN :
          /\ stops + (IF sig THEN 1 ELSE 0) + (IF stp THEN 1 ELSE 0) <= MaxStops
          /\ stp => bpc # "created"
          /\ tmr => TimerPending
          /\ ready' = ready \o (IF sig THEN <<ReadFromSelfTok>> ELSE <<>>)
                            \o (IF stp THEN <<StopTok>> ELSE <<>>)
                            \o (IF tmr THEN <<TimerTok>> ELSE <<>>)
          /\ stops' = stops + (IF sig THEN 1 ELSE 0) + (IF stp THEN 1 ELSE 0)
    /\ ready' # <<>>
    /\ todo' = Len(ready')
    /\ UNCHANGED <<position_size, execution_delay_ms, running, balance, trade_logs, stop_event,
                   cycle_count, position_amount, bpc, idx, cancelling, mpc, cycle_error,
                   stop_called, expired, wake>>
    /\ UNCHANGED <<rlvars, cfgvars, anvars, detvars, clientvars, exvars, gwvars, libvars>>

\* The first callback of the batch is tok and runs; it queues the callbacks new.
Run(tok, new) ==
    /\ LoopFree
    /\ todo > 0
    /\ Head(ready) = tok
    /\ ready' = Tail(ready) \o new
    /\ todo' = todo - 1

\* What is queued when the task of start() finishes: the wakeup of main, if it
\* awaits the task.
TaskDone == IF mpc = "await_task" THEN <<MainTok>> ELSE <<>>

\* A variant of RunningAtStart that leaves the flag as start() found it.
RunningAsLeft == running

\* self._running = True
RunningAtStart == TRUE

\* start() is entered: lines 48-56.  initialize() returns at once in simulation;
\* with real trading it raises without credentials or when the client cannot be
\* built, and builds the client otherwise.
BotStart ==
    /\ bpc = "created"
    /\ ~cancelling
    /\ \E ok \in BOOLEAN :
          /\ (paper_trading \/ mock_mode) => ok
          /\ Run(BotTok, IF ok THEN <<>> ELSE TaskDone)
          /\ bpc' = IF ok THEN "loop" ELSE "raised"
          /\ client_ready' = (ok /\ ~(paper_trading \/ mock_mode))
    /\ running' = RunningAtStart
    /\ stop_event' = "clear"
    /\ wake' = "none"
    /\ UNCHANGED <<position_size, execution_delay_ms, balance, trade_logs, cycle_count,
                   position_amount, idx, cancelling, mpc, cycle_error, stop_called, stops, expired>>
    /\ UNCHANGED <<paper_trading, mock_mode>>
    /\ UNCHANGED <<rlvars, cfgvars, anvars, detvars, exvars, gwvars, libvars>>

\* await asyncio.wait_for(self._stop_event.wait(), timeout=sleep_for): the wait is
\* over at once when the event is already set.
EnterInterval ==
    /\ bpc' = "interval"
    /\ NoScanCall(feed', markets', analyses', opportunities', dpc')
    /\ IF stop_event = "set"
       THEN ready' = Append(ready, BotTok) /\ wake' = "event"
       ELSE ready' = ready /\ wake' = "none"

\* A variant of WhileTest that does not read the flag.
WhileTestForever(r, n) == TRUE

\* A variant of WhileTest under which the loop is left after its first cycle.
WhileTestOnce(r, n) == r /\ n = 0

\* `while self._running:` with the cycles so far; the count is not read.
WhileTest(r, n) == r

\* `while self._running`, and the head of scan_loop up to the scan: lines 58-106.
ScanLoopHead(offered) ==
    /\ bpc = "loop"
    /\ IF ~WhileTest(running, cycle_count)
       THEN /\ bpc' = "returned"
            /\ ready' = ready \o TaskDone
            /\ UNCHANGED <<cycle_count, position_amount, cycle_error, wake, detvars>>
       ELSE LET min_amount == PositionAmount(balance, position_size)
            IN  /\ cycle_count' = (cycle_count + 1) % CycleWrap
                /\ position_amount' = <<min_amount>>
                /\ cycle_error' = FALSE
                /\ IF RatLT(balance, min_amount) \/ RatLE(min_amount, Zero)
                   THEN EnterInterval
                   ELSE /\ bpc' = "scan"
                        /\ feed' \in (IF Len(trade_logs) >= MaxTrades THEN QuietListings
                                      ELSE offered)
                        /\ markets' = <<>>
                        /\ analyses' = <<>>
                        /\ opportunities' = <<>>
                        /\ dpc' = "idle"
                        /\ UNCHANGED <<ready, wake>>
    /\ UNCHANGED <<position_size, execution_delay_ms, running, balance, trade_logs, stop_event,
                   idx, cancelling, mpc, stop_called, stops, expired, todo>>
    /\ UNCHANGED <<rlvars, cfgvars, anvars, clientvars, exvars, gwvars, libvars>>

\* The loop test, with the scan answered by one of BotListings.
LoopTest ==
    /\ bpc = "loop"
    /\ ScanLoopHead(BotListings)

\* scan_markets is called and suspends in the gateway.
BotScanStart ==
    /\ bpc = "scan"
    /\ ScanStart
    /\ UNCHANGED loopvars

\* The gateway's request completes in its thread: the task's wakeup is queued.
FetchCompletes ==
    /\ mpc # "done"
    /\ bpc = "scan"
    /\ dpc = "fetching"
    /\ wake = "none"
    /\ ready' = Append(ready, BotTok)
    /\ wake' = "fetched"
    /\ UNCHANGED todo
    /\ UNCHANGED <<rlvars, cfgvars, anvars, detvars, clientvars, exvars, gwvars, libvars, botvars>>

\* The task resumes in scan_markets with the listing, or with the gateway's
\* exception, which scan_markets turns into [].
BotScanFetched ==
    /\ bpc = "scan"
    /\ ~cancelling
    /\ Run(BotTok, <<>>)
    /\ wake' = "none"
    /\ ScanFetched

BotScanFetchFailed ==
    /\ bpc = "scan"
    /\ ~cancelling
    /\ Run(BotTok, <<>>)
    /\ wake' = "none"
    /\ ScanFetchFailed

\* A variant of NoOpportunities under which an empty list enters the for loop.
NoOpportunitiesNever(ops) == FALSE

\* if len(opportunities) == 0
NoOpportunities(ops) == Len(ops) = 0

\* Lines 108-120: no opportunity means the 30 s cooldown; otherwise the for loop
\* is entered.
Ranked ==
    /\ bpc = "scan"
    /\ dpc = "done"
    /\ IF NoOpportunities(opportunities)
       THEN bpc' = "cooldown" /\ UNCHANGED idx
       ELSE bpc' = "iterate" /\ idx' = 1
    /\ feed' = <<>>
    /\ markets' = <<>>
    /\ analyses' = <<>>
    /\ UNCHANGED <<opportunities, dpc>>
    /\ UNCHANGED <<position_size, execution_delay_ms, running, balance, trade_logs, stop_event,
                   cycle_count, position_amount, cancelling, mpc, cycle_error, stop_called,
                   stops, expired>>
    /\ UNCHANGED <<rlvars, cfgvars, anvars, clientvars, exvars, gwvars, libvars, loopvars>>

\* A variant of KeepGoing that does not read the flag.
KeepGoingIgnoringStop(r) == TRUE

\* `if not self._running: break`
KeepGoing(r) == r

\* The top of the for loop: lines 122-134.  When the loop is left the cycle ends
\* in the 30 s sleep of line 185.
Iterate ==
    /\ bpc = "iterate"
    /\ LET amt == PositionAmount(balance, position_size)
       IN  IF idx > Len(opportunities) \/ ~KeepGoing(running)
           THEN bpc' = "postcycle" /\ UNCHANGED <<position_amount, exvars>>
           ELSE /\ position_amount' = <<amt>>
                /\ IF RatLE(amt, Zero)
                   THEN bpc' = "postcycle" /\ UNCHANGED exvars
                   ELSE /\ bpc' = "execute"
                        /\ arb' = opportunities[idx]
                        /\ amount' = amt
                        /\ epc' = "idle"
                        /\ legs' = [o \in Outcomes |-> NoLeg]
                        /\ orders' = <<>>
                        /\ firstError' = <<>>
                        /\ redeemCalls' = <<>>
                        /\ result' = <<>>
    /\ UNCHANGED <<position_size, execution_delay_ms, running, balance, trade_logs, stop_event,
                   cycle_count, idx, cancelling, mpc, cycle_error, stop_called, stops, expired>>
    /\ UNCHANGED <<rlvars, cfgvars, anvars, detvars, clientvars, gwvars, libvars, loopvars>>

\* execute is called; when it reaches asyncio.gather the two leg tasks are queued,
\* YES first, and the task suspends.
BotExecCall ==
    /\ bpc = "execute"
    /\ ExecCall
    /\ ready' = IF epc' = "legs" THEN ready \o <<LegTok("YES"), LegTok("NO")>> ELSE ready
    /\ UNCHANGED <<todo, wake>>

\* A leg's task runs to its end and queues gather's callback for it.
BotLegRuns(o) ==
    /\ bpc = "execute"
    /\ Run(LegTok(o), <<GatherTok(o)>>)
    /\ UNCHANGED wake
    /\ LegRuns(o)

\* gather's _done_callback: the first failed leg, or the last leg to finish,
\* resolves the gathering future, which queues the wakeup of the task.
GatherCallback(o) ==
    /\ bpc = "execute"
    /\ epc = "legs"
    /\ LET last == \A p \in Outcomes : ~InQueue(LegTok(p)) /\ (p # o => ~InQueue(GatherTok(p)))
           resolves == wake = "none" /\ (legs[o].status = "failed" \/ last)
       IN  /\ Run(GatherTok(o), IF resolves THEN <<BotTok>> ELSE <<>>)
           /\ wake' = IF resolves THEN "gathered" ELSE wake
    /\ UNCHANGED <<rlvars, cfgvars, anvars, detvars, clientvars, exvars, gwvars, libvars, botvars>>

\* The task resumes in execute after the gather.
BotExecJoin ==
    /\ bpc = "execute"
    /\ ~cancelling
    /\ Run(BotTok, <<>>)
    /\ wake' = "none"
    /\ ExecJoin

\* A variant of UpdateBalance that books the profit twice.
UpdateBalanceTwice(bal, profit) == RatAdd(RatAdd(bal, profit), profit)

\* _update_balance: self._balance += float(profit)
UpdateBalance(bal, profit) == RatAdd(bal, profit)

\* A variant of TradeLog that records the balance from before the trade.
TradeLogBalanceBefore(res, bal) ==
    [market |-> res.market, type |-> res.type, profit |-> res.profit,
     balance |-> RatSub(bal, res.profit)]

\* The TradeLog appended at lines 143-152 (without its times).
TradeLog(res, bal) ==
    [market |-> res.market, type |-> res.type, profit |-> res.profit, balance |-> bal]

\* execute returned: lines 138-163.  A success is booked and logged; then the
\* task sleeps for the execution delay (a bare yield when the delay is 0).
Record ==
    /\ bpc = "execute"
    /\ epc = "done"
    /\ IF result[1].success
       THEN LET bal == UpdateBalance(balance, result[1].profit)
            IN  /\ balance' = bal
                /\ trade_logs' = Append(trade_logs, TradeLog(result[1], bal))
       ELSE UNCHANGED <<balance, trade_logs>>
    /\ bpc' = "delay"
    /\ IF execution_delay_ms = 0
       THEN ready' = Append(ready, BotTok) /\ wake' = "yield"
       ELSE UNCHANGED <<ready, wake>>
    /\ NoExecCall(arb', amount', epc', legs', orders', firstError', redeemCalls', result')
    /\ UNCHANGED <<position_size, execution_delay_ms, running, stop_event, cycle_count,
                   position_amount, idx, cancelling, mpc, cycle_error, stop_called, stops,
                   expired, todo>>
    /\ UNCHANGED <<rlvars, cfgvars, anvars, detvars, clientvars, gwvars, libvars>>

\* A variant of AfterCycleError without the handler: the exception leaves start().
AfterCycleErrorUncaught == "raised"

\* `except Exception as error`: the error is logged and scan_loop goes on to the
\* sleep of line 185.
AfterCycleError == "postcycle"

\* Something inside the try block of scan_loop raises an Exception (the sizing,
\* the scan, execute or a logger call): `except Exception` logs it and the cycle
\* ends in the 30 s sleep of line 185.
CycleFails ==
    /\ \/ bpc = "scan" /\ dpc \in {"idle", "done"}
       \/ bpc = "iterate"
       \/ bpc = "execute" /\ epc \in {"idle", "raised"}
    /\ cycle_error' = TRUE
    /\ bpc' = AfterCycleError
    /\ NoScanCall(feed', markets', analyses', opportunities', dpc')
    /\ NoExecCall(arb', amount', epc', legs', orders', firstError', redeemCalls', result')
    /\ idx' = 0
    /\ UNCHANGED <<position_size, execution_delay_ms, running, balance, trade_logs, stop_event,
                   cycle_count, position_amount, cancelling, mpc, stop_called, stops,
                   expired>>
    /\ UNCHANGED <<rlvars, cfgvars, anvars, clientvars, gwvars, libvars, loopvars>>

\* The timer handle of the task's sleep runs and queues the wakeup of the task,
\* unless the wait is already over.
TimerCallback ==
    /\ LET wakes == bpc \in Waits /\ wake = "none"
       IN  /\ Run(TimerTok, IF wakes THEN <<BotTok>> ELSE <<>>)
           /\ wake' = IF wakes THEN "timer" ELSE wake
           /\ expired' = IF wakes /\ stop_called THEN expired \cup {bpc} ELSE expired
    /\ UNCHANGED <<position_size, execution_delay_ms, running, balance, trade_logs, stop_event,
                   cycle_count, position_amount, bpc, idx, cancelling, mpc, cycle_error,
                   stop_called, stops>>
    /\ UNCHANGED <<rlvars, cfgvars, anvars, detvars, clientvars, exvars, gwvars, libvars>>

\* A variant of NextIndex that goes back to the opportunity just executed.
SameIndex(i) == i

\* `for i, arb in enumerate(opportunities)`: the next element.
NextIndex(i) == i + 1

\* The task resumes after a wait: after the execution delay the for loop goes on;
\* after the cooldown or the post-cycle sleep scan_loop returns and start() waits
\* for the rest of the scan interval; after that wait the while loop goes on.
BotWakes ==
    /\ bpc \in Waits
    /\ ~cancelling
    /\ LoopFree
    /\ todo > 0
    /\ Head(ready) = BotTok
    /\ todo' = todo - 1
    /\ LET after == Tail(ready)
       IN  IF bpc = "delay"
           THEN /\ bpc' = "iterate" /\ idx' = NextIndex(idx) /\ ready' = after /\ wake' = "none"
                /\ UNCHANGED detvars
           ELSE IF bpc = "interval"
           THEN /\ bpc' = "loop" /\ idx' = idx /\ ready' = after /\ wake' = "none"
                /\ UNCHANGED detvars
           ELSE /\ bpc' = "interval"
                /\ idx' = 0
                /\ NoScanCall(feed', markets', analyses', opportunities', dpc')
                /\ IF stop_event = "set"
                   THEN ready' = Append(after, BotTok) /\ wake' = "event"
                   ELSE ready' = after /\ wake' = "none"
    /\ UNCHANGED <<position_size, execution_delay_ms, running, balance, trade_logs, stop_event,
                   cycle_count, position_amount, cancelling, mpc, cycle_error, stop_called,
                   stops, expired>>
    /\ UNCHANGED <<rlvars, cfgvars, anvars, clientvars, exvars, gwvars, libvars>>

\* The loop reads the wakeup byte of SIGINT/SIGTERM and queues the handler.
ReadFromSelf ==
    /\ Run(ReadFromSelfTok, <<RequestStopTok>>)
    /\ UNCHANGED wake
    /\ UNCHANGED <<rlvars, cfgvars, anvars, detvars, clientvars, exvars, gwvars, libvars, botvars>>

\* stop(): the flag is cleared and the event of the interval wait is set, which
\* ends that wait if the task is in it.
StopWakes == bpc = "interval" /\ wake = "none" /\ stop_event = "clear"

Stop ==
    /\ running' = FALSE
    /\ stop_event' = IF stop_event = "none" THEN "none" ELSE "set"
    /\ stop_called' = TRUE
    /\ wake' = IF StopWakes THEN "event" ELSE wake

\* _request_stop: bot.stop(), then main's own stop event is set, which queues
\* the wakeup of main the first time.
RequestStop ==
    /\ Run(RequestStopTok,
           (IF StopWakes THEN <<BotTok>> ELSE <<>>)
           \o (IF mpc = "wait_stop" /\ ~InQueue(MainTok) THEN <<MainTok>> ELSE <<>>))
    /\ Stop
    /\ UNCHANGED <<position_size, execution_delay_ms, balance, trade_logs, cycle_count,
                   position_amount, bpc, idx, cancelling, mpc, cycle_error, stops, expired>>
    /\ UNCHANGED <<rlvars, cfgvars, anvars, detvars, clientvars, exvars, gwvars, libvars>>

\* bot.stop() called from elsewhere in the program.
StopCall ==
    /\ Run(StopTok, IF StopWakes THEN <<BotTok>> ELSE <<>>)
    /\ Stop
    /\ UNCHANGED <<position_size, execution_delay_ms, balance, trade_logs, cycle_count,
                   position_amount, bpc, idx, cancelling, mpc, cycle_error, stops, expired>>
    /\ UNCHANGED <<rlvars, cfgvars, anvars, detvars, clientvars, exvars, gwvars, libvars>>

\* main resumes after its stop event: task.cancel(), then `await task`.
\* Task.cancel() cancels the future the task waits for when that is still pending
\* (for a gather: its unfinished children), which queues the task's wakeup;
\* otherwise it marks the task, and CancelledError is thrown at its next step.
LegsPending == bpc = "execute" /\ epc = "legs" /\ \E o \in Outcomes : legs[o].status = "pending"

MainCancels ==
    /\ mpc = "wait_stop"
    /\ LoopFree
    /\ todo > 0
    /\ Head(ready) = MainTok
    /\ todo' = todo - 1
    /\ LET rest == Tail(ready)
           kept == SelectSeq(rest, LAMBDA t : t \notin {LegTok("YES"), LegTok("NO")})
       IN  IF bpc \in Finished
           THEN /\ mpc' = "done"
                /\ ready' = rest
                /\ UNCHANGED <<cancelling, wake, legs>>
           ELSE /\ mpc' = "await_task"
                /\ cancelling' = TRUE
                /\ IF wake # "none"
                   THEN ready' = rest /\ UNCHANGED <<wake, legs>>
                   ELSE IF LegsPending
                   THEN /\ ready' = Append(kept, BotTok)
                        /\ wake' = "cancel"
                        /\ legs' = [o \in Outcomes |->
                                      IF legs[o].status = "pending"
                                      THEN [legs[o] EXCEPT !.status = "cancelled"] ELSE legs[o]]
                   ELSE IF bpc = "execute"
                   THEN ready' = rest /\ UNCHANGED <<wake, legs>>
                   ELSE ready' = Append(rest, BotTok) /\ wake' = "cancel" /\ UNCHANGED legs
    /\ UNCHANGED <<position_size, execution_delay_ms, running, balance, trade_logs, stop_event,
                   cycle_count, position_amount, bpc, idx, cycle_error, stop_called, stops,
                   expired>>
    /\ UNCHANGED <<arb, amount, epc, orders, firstError, redeemCalls, result>>
    /\ UNCHANGED <<rlvars, cfgvars, anvars, detvars, clientvars, gwvars, libvars>>

\* main resumes in `await task` once the task is done, and returns.
MainReturns ==
    /\ mpc = "await_task"
    /\ bpc \in Finished
    /\ Run(MainTok, <<>>)
    /\ mpc' = "done"
    /\ UNCHANGED wake
    /\ UNCHANGED <<position_size, execution_delay_ms, running, balance, trade_logs, stop_event,
                   cycle_count, position_amount, bpc, idx, cancelling, cycle_error, stop_called,
                   stops, expired>>
    /\ UNCHANGED <<rlvars, cfgvars, anvars, detvars, clientvars, exvars, gwvars, libvars>>

\* The task's next step after task.cancel(): CancelledError is thrown at its
\* suspension point.  No handler of start(), scan_loop, scan_markets or execute
\* catches it (they catch Exception), so the task ends cancelled.
BotCancelled ==
    /\ cancelling
    /\ bpc \notin Finished
    /\ Run(BotTok, TaskDone)
    /\ bpc' = "cancelled"
    /\ cancelling' = FALSE
    /\ wake' = "none"
    /\ epc' = IF bpc = "execute" /\ epc = "legs" THEN "cancelled" ELSE epc
    /\ dpc' = IF bpc = "scan" /\ dpc = "fetching" THEN "cancelled" ELSE dpc
    /\ UNCHANGED <<position_size, execution_delay_ms, running, balance, trade_logs, stop_event,
                   cycle_count, position_amount, idx, mpc, cycle_error, stop_called, stops,
                   expired>>
    /\ UNCHANGED <<feed, markets, analyses, opportunities>>
    /\ UNCHANGED <<arb, amount, legs, orders, firstError, redeemCalls, result>>
    /\ UNCHANGED <<rlvars, cfgvars, anvars, clientvars, gwvars, libvars>>

NextBot ==
    \/ RunOnce
    \/ BotStart
    \/ LoopTest
    \/ BotScanStart
    \/ FetchCompletes
    \/ BotScanFetched
    \/ BotScanFetchFailed
    \/ Ranked
    \/ Iterate
    \/ BotExecCall
    \/ \E o \in Outcomes : BotLegRuns(o)
    \/ \E o \in Outcomes : GatherCallback(o)
    \/ BotExecJoin
    \/ Record
    \/ CycleFails
    \/ TimerCallback
    \/ BotWakes
    \/ ReadFromSelf
    \/ RequestStop
    \/ StopCall
    \/ MainCancels
    \/ MainReturns
    \/ BotCancelled

SpecBot == InitBot /\ [][NextBot]_vars

\* The loop keeps running its callbacks, timers fire and requests finish
\* (requests.get has a timeout).
SpecBotFair == SpecBot /\ WF_vars(NextBot)

\* The queue and the task agree.
BotTypeOK ==
    /\ bpc \in {"created", "loop", "scan", "iterate", "execute"} \cup Waits \cup Finished
    /\ (wake # "none") = (InQueue(BotTok) \/ (bpc \in Finished /\ wake # "none"))
    /\ todo <= Len(ready)
    /\ ~(MainTok = Head(ready \o <<MainTok>>) /\ todo > 0 /\ LegsPending /\ mpc = "wait_stop")


\* An execution is being recorded: execute has returned and the task is at line 138.
Recording == bpc = "execute" /\ epc = "done" /\ bpc' = "delay"

\* C12: in every step, the balance and the trade log change only when a successful
\* execution is recorded, the balance then by exactly the result's profit and the
\* log by one entry carrying the new balance; recording a failed execution changes
\* neither.
C12_BalanceFrame ==
    [][/\ (balance' # balance \/ trade_logs' # trade_logs) =>
            /\ Recording
            /\ result[1].success
            /\ balance' = RatAdd(balance, result[1].profit)
            /\ Len(trade_logs') = Len(trade_logs) + 1
            /\ trade_logs'[Len(trade_logs')].balance = RatAdd(balance, result[1].profit)
            /\ trade_logs'[Len(trade_logs')].profit = result[1].profit
       /\ (Recording /\ ~result[1].success) => UNCHANGED <<balance, trade_logs>>
       /\ (Recording /\ result[1].success) => Len(trade_logs') = Len(trade_logs) + 1
      ]_vars

\* C12 witness: in one cycle a long arbitrage was executed and booked (10 dollars
\* at a combined price of 0.97 redeem 1000/97), then the execution of the second
\* opportunity failed and was recorded with the balance and the log as they were.
C12_Witness ==
    /\ bpc = "delay"
    /\ idx = 2
    /\ opportunities[2].type = "short"
    /\ Len(trade_logs) = 1
    /\ balance = RatAdd(<<100, 1>>, trade_logs[1].profit)
    /\ trade_logs[1].profit = <<30, 97>>
    /\ trade_logs[1].balance = balance

\* C13: once stop() has been called, no step calls execute.
C13_NoExecuteAfterStop ==
    [][stop_called => ~(bpc = "execute" /\ epc = "idle" /\ epc' # "idle")]_vars

\* C13 witness: stop() arrived during the delay after the first execution of a
\* cycle with a second opportunity still to process, and the for loop was left.
C13_Witness ==
    /\ stop_called
    /\ bpc = "postcycle"
    /\ ~cycle_error
    /\ idx = 2
    /\ Len(opportunities) = 2
    /\ RatLT(Zero, PositionAmount(balance, position_size))

\* C14 as stated: an execution whose legs were submitted is never left without its
\* settlement step and its entry in the ledger.
C14_AsStated ==
    ~(/\ epc = "cancelled"
      /\ \A o \in Outcomes : legs[o].status = "filled"
      /\ redeemCalls = <<>>
      /\ result = <<>>
      /\ trade_logs = <<>>)

\* C15 as stated: after stop() was called no wait of the task ends on its timer.
C15_AsStated == expired = {}


\* C16: a scan cycle that raised does not end start() (as long as no stop is
\* requested the task has neither returned nor raised), and, unless a stop is
\* requested, a further scan cycle is eventually started.
C16_CycleErrorCaught ==
    /\ []((cycle_error /\ ~stop_called) => bpc \notin Finished)
    /\ ((cycle_error /\ ~stop_called) ~> (~cycle_error \/ stop_called))

\* C16 witness: a cycle raised after a trade was booked, the error was caught,
\* the 30 s sleep ran to its timer and start() is in its interval wait.
C16_Witness ==
    /\ cycle_error
    /\ ~stop_called
    /\ bpc = "interval"
    /\ Len(trade_logs) = 1
    /\ running

\* start() got past initialize().
Initialized == bpc \notin {"created", "raised"}

\* C17: start() has returned or was cancelled only after a stop request, and with
\* no stop request every scan cycle is followed by another one.
C17_LoopNeverEnds ==
    /\ [](bpc \in {"returned", "cancelled"} => stop_called)
    /\ [](bpc = "raised" => cycle_count = 0 /\ ~client_ready /\ ~paper_trading)
    /\ \A k \in 0..(CycleWrap - 1) :
          [](((Initialized /\ cycle_count = k) /\ ~stop_called)
                => <>(cycle_count # k \/ stop_called))

\* C17 witness: with a balance of zero and no stop request, the loop has gone
\* through a whole round of the cycle counter and waits for the next cycle.
C17_Witness ==
    /\ ~stop_called
    /\ balance = Zero
    /\ position_amount = <<Zero>>
    /\ cycle_count = 0
    /\ bpc = "interval"


(***************************************************************************)
(* PositionManager                                                         *)
(***************************************************************************)

\* Bounds: the positions opened and the trades recorded in a run.
MaxPositions == 2
MaxCloses == 3

Sides == {"UP", "DOWN"}

\* initial_capital of the model, in dollars.
InitialCapital == <<100, 1>>

\* A variant of Shares that takes the dollars as the share count.
SharesAtPar(size_usd, entry_price) == size_usd

\* shares = size_usd / entry_price
Shares(size_usd, entry_price) == RatDiv(size_usd, Mills(entry_price))

\* exit_value = exit_price * position.shares
ExitValue(p, exit_price) == RatMul(Mills(exit_price), p.shares)

\* A variant of TradeOf whose pnl is the exit value, without the stake taken off.
TradeOfGross(p, exit_price, reason) ==
    [position_id |-> p.position_id, market_id |-> p.market_id, side |-> p.side,
     entry_price |-> p.entry_price, exit_price |-> exit_price, size_usd |-> p.size_usd,
     shares |-> p.shares, pnl |-> ExitValue(p, exit_price), reason |-> reason]

\* The Trade close_position builds.
TradeOf(p, exit_price, reason) ==
    [position_id |-> p.position_id, market_id |-> p.market_id, side |-> p.side,
     entry_price |-> p.entry_price, exit_price |-> exit_price, size_usd |-> p.size_usd,
     shares |-> p.shares, pnl |-> RatSub(ExitValue(p, exit_price), p.size_usd),
     reason |-> reason]

\* self._positions.pop(position.position_id, None)
Pop(ps, id) == SelectSeq(ps, LAMBDA q : q.position_id # id)

\* The manager's state after close_position(p, exit_price, reason) on the state st;
\* ok is false when close_position raised, and nothing has changed then.
CloseIn(st, p, exit_price, reason) ==
    IF exit_price <= 0
    THEN [st EXCEPT !.ok = FALSE]
    ELSE [st EXCEPT !.capital = RatAdd(st.capital, ExitValue(p, exit_price)),
                    !.positions = Pop(st.positions, p.position_id),
                    !.trades = Append(st.trades, TradeOf(p, exit_price, reason)),
                    !.out = Append(st.out, TradeOf(p, exit_price, reason))]

\* A variant of PriceFor that reads the price of UP for every side.
PriceForUp(exit_prices, side) ==
    IF exit_prices.kind = "float" THEN <<exit_prices.price>> ELSE exit_prices.by["UP"]

\* exit_prices[position.side] for a dict (<<>> when the key is missing), or the
\* single price.
PriceFor(exit_prices, side) ==
    IF exit_prices.kind = "float" THEN <<exit_prices.price>> ELSE exit_prices.by[side]

\* The loop of force_close_all over the snapshot todo of the open positions: it
\* ends at the first position whose price is missing (KeyError) or whose close
\* raises.
RECURSIVE ForceCloseLoop(_, _, _, _)
ForceCloseLoop(st, snapshot, exit_prices, reason) ==
    IF snapshot = <<>> \/ ~st.ok THEN st
    ELSE LET p == Head(snapshot)
             price == PriceFor(exit_prices, p.side)
         IN  IF price = <<>> THEN [st EXCEPT !.ok = FALSE]
             ELSE ForceCloseLoop(CloseIn(st, p, price[1], reason), Tail(snapshot),
                                 exit_prices, reason)

ManagerState == [capital |-> capital, positions |-> positions, trades |-> trades,
                 out |-> <<>>, ok |-> TRUE]

\* The arguments of the calls.
PMEntryPrices == {0, 400, 500}
PMSizes == {Zero, <<10, 1>>, <<200, 1>>}
PMExitPrices == {0, 350, 600}
FloatPrice(x) == [kind |-> "float", price |-> x, by |-> [s \in Sides |-> <<>>]]
DictPrices(up, down) == [kind |-> "dict", price |-> 0, by |-> [s \in Sides |-> IF s = "UP" THEN up ELSE down]]
PMForcePrices ==
    {FloatPrice(0), FloatPrice(550), DictPrices(<<550>>, <<350>>), DictPrices(<<550>>, <<>>),
     DictPrices(<<0>>, <<350>>)}

InitPM ==
    /\ capital = InitialCapital
    /\ positions = <<>>
    /\ trades = <<>>
    /\ next_id = 1
    /\ handles = <<>>
    /\ pmret = [op |-> "none", raised |-> FALSE, trades |-> <<>>]
    /\ position = [sl |-> 0, tp |-> 0]
    /\ current_price = 0
    /\ time_remaining = 0
    /\ action = <<>>
    /\ config = <<>>
    /\ vpc = "none"
    /\ NoParse
    /\ max_calls = 0
    /\ FreshLimiter
    /\ DefaultDetector
    /\ NoAnalysis
    /\ NoScan
    /\ DefaultClient
    /\ NoExecution
    /\ NoGateway
    /\ NoBot

notPM == <<rlvars, cfgvars, anvars, detvars, clientvars, exvars, gwvars, botvars, loopvars,
           riskvars, startvars, parsevars>>

\* open_position(market_id, side, entry_price, size_usd, sl, tp)
OpenPosition ==
    /\ next_id <= MaxPositions
    /\ \E side \in Sides, entry_price \in PMEntryPrices, size_usd \in PMSizes :
          LET args == [side |-> side, entry_price |-> entry_price, size_usd |-> size_usd]
              p == [position_id |-> next_id, market_id |-> next_id, side |-> side,
                    entry_price |-> entry_price, size_usd |-> size_usd,
                    shares |-> Shares(size_usd, entry_price), sl |-> 400, tp |-> 700]
          IN  IF RatLE(size_usd, Zero) \/ entry_price <= 0 \/ RatLT(capital, size_usd)
              THEN /\ pmret' = [op |-> "open_position", raised |-> TRUE, trades |-> <<>>,
                                args |-> args]
                   /\ UNCHANGED <<capital, positions, trades, next_id, handles>>
              ELSE /\ capital' = RatSub(capital, size_usd)
                   /\ positions' = Append(positions, p)
                   /\ next_id' = next_id + 1
                   /\ handles' = Append(handles, p)
                   /\ pmret' = [op |-> "open_position", raised |-> FALSE, trades |-> <<>>,
                                args |-> args]
                   /\ UNCHANGED trades
    /\ UNCHANGED notPM

\* close_position(position, exit_price, reason) with a Position the caller holds.
ClosePosition ==
    /\ Len(trades) < MaxCloses
    /\ \E h \in DOMAIN handles, exit_price \in PMExitPrices :
          LET st == CloseIn(ManagerState, handles[h], exit_price, "TAKE_PROFIT")
          IN  /\ capital' = st.capital
              /\ positions' = st.positions
              /\ trades' = st.trades
              /\ pmret' = [op |-> "close_position", raised |-> ~st.ok, trades |-> st.out,
                           args |-> [position |-> handles[h], exit_price |-> exit_price]]
    /\ UNCHANGED <<next_id, handles>>
    /\ UNCHANGED notPM

\* force_close_all(exit_prices, reason)
ForceCloseAll ==
    /\ Len(trades) < MaxCloses
    /\ \E exit_prices \in PMForcePrices :
          LET st == ForceCloseLoop(ManagerState, positions, exit_prices, "FORCED_CLOSE")
          IN  /\ capital' = st.capital
              /\ positions' = st.positions
              /\ trades' = st.trades
              /\ pmret' = [op |-> "force_close_all", raised |-> ~st.ok,
                           trades |-> IF st.ok THEN st.out ELSE <<>>,
                           args |-> [exit_prices |-> exit_prices]]
    /\ UNCHANGED <<next_id, handles>>
    /\ UNCHANGED notPM

NextPM ==
    \/ OpenPosition
    \/ ClosePosition
    \/ ForceCloseAll

SpecPM == InitPM /\ [][NextPM]_vars

\* The trades recorded for the position id.
TradesOf(id) == {i \in DOMAIN trades : trades[i].position_id = id}

\* C21 as stated: no position has more than one trade.
C21_AsStated == \A h \in DOMAIN handles : Cardinality(TradesOf(handles[h].position_id)) <= 1

\* The first close of a position does what C21 says: the position leaves the open
\* set and one trade carries its id.
C21_FirstClose ==
    [][(pmret'.op = "close_position" /\ ~pmret'.raised
        /\ TradesOf(pmret'.args.position.position_id) = {})
       => /\ \A i \in DOMAIN positions' :
                positions'[i].position_id # pmret'.args.position.position_id
          /\ Len(trades') = Len(trades) + 1
          /\ trades'[Len(trades')].position_id = pmret'.args.position.position_id]_vars

\* C22: an open_position that returns takes exactly size_usd from the capital and
\* records shares = size_usd / entry_price; closing an open position at exit_price
\* adds exit_price * shares to the capital, returns a trade with
\* pnl = exit_price * shares - size_usd, removes the position and appends that one
\* trade.
C22_OpenClose ==
    [][/\ (pmret'.op = "open_position" /\ ~pmret'.raised /\ next_id' # next_id) =>
            LET a == pmret'.args
                p == handles'[Len(handles')]
            IN  /\ capital' = RatSub(capital, a.size_usd)
                /\ RatMul(p.shares, Mills(a.entry_price)) = a.size_usd
                /\ positions' = Append(positions, p)
                /\ trades' = trades
       /\ (pmret'.op = "close_position" /\ ~pmret'.raised /\ Len(trades') # Len(trades)
           /\ \E i \in DOMAIN positions : positions[i] = pmret'.args.position) =>
            LET a == pmret'.args
                value == RatMul(Mills(a.exit_price), a.position.shares)
            IN  /\ capital' = RatAdd(capital, value)
                /\ Len(pmret'.trades) = 1
                /\ pmret'.trades[1].pnl = RatSub(value, a.position.size_usd)
                /\ trades' = Append(trades, pmret'.trades[1])
                /\ Len(positions') = Len(positions) - 1
                /\ \A i \in DOMAIN positions' : positions'[i] # a.position
      ]_vars

\* C22 witness: the test's run: capital 100, 10 dollars at 0.50 (20 shares),
\* closed at 0.60: capital 102, pnl 2, nothing open, one trade.
C22_Witness ==
    /\ pmret.op = "close_position"
    /\ ~pmret.raised
    /\ capital = <<102, 1>>
    /\ positions = <<>>
    /\ Len(trades) = 1
    /\ trades[1].pnl = <<2, 1>>
    /\ trades[1].shares = <<20, 1>>

\* C23: when force_close_all returns, nothing is open and the trades it returns
\* are one per position that was open, in order, each at the price given for the
\* position's side or at the single price.
C23_ForceCloseAll ==
    [][(pmret'.op = "force_close_all" /\ ~pmret'.raised) =>
          LET ep == pmret'.args.exit_prices
          IN  /\ positions' = <<>>
              /\ Len(pmret'.trades) = Len(positions)
              /\ \A i \in DOMAIN positions :
                    /\ pmret'.trades[i].position_id = positions[i].position_id
                    /\ <<pmret'.trades[i].exit_price>> =
                          (IF ep.kind = "float" THEN <<ep.price>> ELSE ep.by[positions[i].side])
              /\ trades' = trades \o pmret'.trades
      ]_vars

\* C23 witness: the test's run: an UP and a DOWN position closed by one call at
\* the prices given for their sides.
C23_Witness ==
    /\ pmret.op = "force_close_all"
    /\ ~pmret.raised
    /\ Len(pmret.trades) = 2
    /\ pmret.trades[1].side = "UP" /\ pmret.trades[1].exit_price = 550
    /\ pmret.trades[2].side = "DOWN" /\ pmret.trades[2].exit_price = 350
    /\ positions = <<>>


(***************************************************************************)
(* RiskManager.check_position                                              *)
(***************************************************************************)

\* A variant of CheckPosition that tests the stop loss before the take profit.
CheckPositionStopFirst(p, price, remaining) ==
    IF remaining <= 0 THEN "FORCE_CLOSE"
    ELSE IF price <= p.sl THEN "STOP_LOSS"
    ELSE IF price >= p.tp THEN "TAKE_PROFIT"
    ELSE "HOLD"

\* check_position(position, current_price, time_remaining)
CheckPosition(p, price, remaining) ==
    IF remaining <= 0 THEN "FORCE_CLOSE"
    ELSE IF price >= p.tp THEN "TAKE_PROFIT"
    ELSE IF price <= p.sl THEN "STOP_LOSS"
    ELSE "HOLD"

\* The levels, prices (mills) and times of the calls: the levels are also taken
\* equal and crossed (sl above tp), which a caller can pass.
RiskLevels == {400, 425, 500, 650}
RiskPrices == {400, 425, 500, 650, 700}
RiskTimes == {-1, 0, 1, 10}

InitRisk ==
    /\ position \in [sl : RiskLevels, tp : RiskLevels]
    /\ current_price \in RiskPrices
    /\ time_remaining \in RiskTimes
    /\ action = <<>>
    /\ capital = <<0, 1>>
    /\ positions = <<>>
    /\ trades = <<>>
    /\ next_id = 1
    /\ handles = <<>>
    /\ pmret = [op |-> "none", raised |-> FALSE, trades |-> <<>>]
    /\ config = <<>>
    /\ vpc = "none"
    /\ NoParse
    /\ max_calls = 0
    /\ FreshLimiter
    /\ DefaultDetector
    /\ NoAnalysis
    /\ NoScan
    /\ DefaultClient
    /\ NoExecution
    /\ NoGateway
    /\ NoBot

CheckPositionCall ==
    /\ action = <<>>
    /\ action' = <<CheckPosition(position, current_price, time_remaining)>>
    /\ UNCHANGED <<position, current_price, time_remaining>>
    /\ UNCHANGED <<rlvars, cfgvars, anvars, detvars, clientvars, exvars, gwvars, botvars,
                   loopvars, pmvars, startvars, parsevars>>

NextRisk == CheckPositionCall

SpecRisk == InitRisk /\ [][NextRisk]_vars

\* C24: the action returned is FORCE_CLOSE exactly when time_remaining <= 0;
\* with time left it is TAKE_PROFIT exactly when current_price >= tp, STOP_LOSS
\* exactly when current_price < tp and current_price <= sl, and HOLD otherwise.
C24_CheckPosition ==
    action # <<>> =>
        /\ action[1] \in {"FORCE_CLOSE", "TAKE_PROFIT", "STOP_LOSS", "HOLD"}
        /\ (action[1] = "FORCE_CLOSE") = (time_remaining <= 0)
        /\ (action[1] = "TAKE_PROFIT") = (time_remaining > 0 /\ current_price >= position.tp)
        /\ (action[1] = "STOP_LOSS") =
              (time_remaining > 0 /\ current_price < position.tp /\ current_price <= position.sl)
        /\ (action[1] = "HOLD") =
              (time_remaining > 0 /\ current_price < position.tp /\ current_price > position.sl)

\* C24 witness: with time left, a price at or above the take profit and at or
\* below the stop loss (crossed levels) gives TAKE_PROFIT.
C24_Witness ==
    /\ action = <<"TAKE_PROFIT">>
    /\ time_remaining > 0
    /\ current_price >= position.tp
    /\ current_price <= position.sl


(***************************************************************************)
(* BotConfig.validate and the start of arbitrage_pure_main                 *)
(***************************************************************************)

\* The numeric values BotConfig.load can read from the environment: float()
\* and int() accept zero and negative numbers.
Configs ==
    [starting_capital : {0, 100},
     position_size : {0, 10},
     min_profit_threshold : {0, 5},
     min_market_volume : {-1, 10000},
     market_scan_limit : {0, 1000},
     scan_interval_ms : {0, 30000},
     execution_delay_ms : {-1, 0, 1000},
     gamma_rps : {-1, 0, 5}]

\* validate(): TRUE when it raises ValueError.
ValidateRaises(cfg) ==
    \/ cfg.starting_capital <= 0
    \/ cfg.position_size <= 0
    \/ cfg.min_profit_threshold <= 0
    \/ cfg.scan_interval_ms <= 0
    \/ cfg.execution_delay_ms < 0
    \/ cfg.market_scan_limit <= 0

InitStart ==
    /\ config \in {<<cfg>> : cfg \in Configs}
    /\ vpc = "loaded"
    /\ NoParse
    /\ position = [sl |-> 0, tp |-> 0]
    /\ current_price = 0
    /\ time_remaining = 0
    /\ action = <<>>
    /\ capital = <<0, 1>>
    /\ positions = <<>>
    /\ trades = <<>>
    /\ next_id = 1
    /\ handles = <<>>
    /\ pmret = [op |-> "none", raised |-> FALSE, trades |-> <<>>]
    /\ max_calls = 0
    /\ FreshLimiter
    /\ DefaultDetector
    /\ NoAnalysis
    /\ NoScan
    /\ DefaultClient
    /\ NoExecution
    /\ NoGateway
    /\ NoBot

notStart == <<rlvars, cfgvars, anvars, detvars, clientvars, exvars, gwvars, botvars, loopvars, pmvars, riskvars, parsevars>>

\* cfg.validate() in arbitrage_pure_main.
Validate ==
    /\ vpc = "loaded"
    /\ vpc' = IF ValidateRaises(config[1]) THEN "rejected" ELSE "validated"
    /\ UNCHANGED config
    /\ UNCHANGED notStart

\* ConsoleLogger(log_level=...): the dataclass has no such field, so the call
\* raises TypeError and arbitrage_pure_main ends before the bot is created.
ConsoleLoggerCall ==
    /\ vpc = "validated"
    /\ vpc' = "type_error"
    /\ UNCHANGED config
    /\ UNCHANGED notStart

NextStart ==
    \/ Validate
    \/ ConsoleLoggerCall

SpecStart == InitStart /\ [][NextStart]_vars

\* Every numeric configuration value within its range.
InRange(cfg) ==
    /\ cfg.starting_capital > 0
    /\ cfg.position_size > 0
    /\ cfg.min_profit_threshold > 0
    /\ cfg.min_market_volume >= 0
    /\ cfg.scan_interval_ms > 0
    /\ cfg.execution_delay_ms >= 0
    /\ cfg.market_scan_limit > 0
    /\ cfg.gamma_rps > 0

\* C26 as stated: with any numeric configuration value out of range,
\* validation fails, so the start-up never gets past validate().
C26_AsStated ==
    vpc \in {"validated", "type_error"} => InRange(config[1])


\* C25: with paper trading and mock mode both off, in every step no leg is left
\* filled, redeem would raise, an execute that returns does so with
\* success = false, the balance does not change and the trade log stays empty.
C25_LiveFailsFast ==
    [][~(paper_trading \/ mock_mode) =>
           /\ \A o \in Outcomes : legs'[o].status # "filled"
           /\ ~Redeem(amount', amount').ok
           /\ (bpc' = "execute" /\ epc' = "done") => ~result'[1].success
           /\ balance' = balance
           /\ trade_logs' = <<>>]_vars

\* C25 witness: with real trading and a client built, a later cycle (the counter
\* has wrapped) offered a long arbitrage; both legs raised NotImplementedError and
\* execute returned a failure, the balance still being the starting 100 dollars.
C25_Witness ==
    /\ ~(paper_trading \/ mock_mode)
    /\ client_ready
    /\ cycle_count = 0
    /\ bpc = "execute"
    /\ epc = "done"
    /\ arb.type = "long"
    /\ \A o \in Outcomes : legs[o].status = "failed"
    /\ result[1].success = FALSE
    /\ result[1].error = <<"Real trading is not enabled in this repository by default.">>
    /\ balance = <<100, 1>>
    /\ trade_logs = <<>>


(***************************************************************************)
(* ArbitrageBotService.scan_loop: the for loop over the opportunities      *)
(***************************************************************************)

\* Listings with two opportunities in one cycle: DeepQuote is a long arbitrage
\* at a combined ask of $0.50, which doubles what is put into it.
DeepQuote == Quote(190, 200, 290, 300, 50000, TRUE)
\* A short arbitrage that fills: bids of 0.60 and 0.50.
ShortQuote == Quote(600, 610, 500, 510, 50000, TRUE)
CycleListings ==
    QuietListings \cup {Listing(<<RejectedQuote, LongQuote>>), Listing(<<LongQuote, DeepQuote>>),
                        Listing(<<ShortQuote>>)}

\* A starting capital under the position size, and one over it.
CycleCapitals == {<<5, 1>>, <<100, 1>>}

\* As InitBot, in paper trading.
InitCycle ==
    /\ balance \in CycleCapitals
    /\ position_size = <<10, 1>>
    /\ execution_delay_ms \in ExecutionDelays
    /\ paper_trading = TRUE
    /\ mock_mode = FALSE
    /\ client_ready = FALSE
    /\ running = FALSE
    /\ trade_logs = <<>>
    /\ stop_event = "none"
    /\ cycle_count = 0
    /\ position_amount = <<>>
    /\ bpc = "created"
    /\ idx = 0
    /\ cancelling = FALSE
    /\ mpc = "wait_stop"
    /\ cycle_error = FALSE
    /\ stop_called = FALSE
    /\ stops = 0
    /\ expired = {}
    /\ ready = <<BotTok>>
    /\ todo = 0
    /\ wake = "start"
    /\ DefaultDetector
    /\ NoScanCall(feed, markets, analyses, opportunities, dpc)
    /\ NoExecCall(arb, amount, epc, legs, orders, firstError, redeemCalls, result)
    /\ max_calls = 0
    /\ FreshLimiter
    /\ NoAnalysis
    /\ NoGateway
    /\ NoLib

\* The loop test, with the scan answered by one of CycleListings.
CycleLoopTest ==
    /\ bpc = "loop"
    /\ ScanLoopHead(CycleListings)

NextCycle ==
    \/ RunOnce
    \/ BotStart
    \/ CycleLoopTest
    \/ BotScanStart
    \/ FetchCompletes
    \/ BotScanFetched
    \/ BotScanFetchFailed
    \/ Ranked
    \/ Iterate
    \/ BotExecCall
    \/ \E o \in Outcomes : BotLegRuns(o)
    \/ \E o \in Outcomes : GatherCallback(o)
    \/ BotExecJoin
    \/ Record
    \/ CycleFails
    \/ TimerCallback
    \/ BotWakes
    \/ ReadFromSelf
    \/ RequestStop
    \/ StopCall
    \/ MainCancels
    \/ MainReturns
    \/ BotCancelled

SpecCycle == InitCycle /\ [][NextCycle]_vars

\* execute is called in this step.
ExecuteStarts == bpc # "execute" /\ bpc' = "execute"

\* A leg task or a gather callback of an execution is still queued.
LegsInFlight == \E o \in Outcomes : InQueue(LegTok(o)) \/ InQueue(GatherTok(o))

\* C29: in every step, execute is called only from the top of the for loop, for
\* the opportunity at the loop's index in the ranked list (profits descending),
\* with no leg of an earlier execution still in flight; after an execution the
\* task reaches the top of the loop again only through the execution delay (its
\* timer fired, or a bare yield when the delay is 0) and with the index one
\* higher; and within a cycle the index and the list change in no other way, so
\* no opportunity is executed twice.
C29_OneAtATime ==
    [][/\ ExecuteStarts =>
            /\ bpc = "iterate"
            /\ idx \in 1..Len(opportunities)
            /\ idx' = idx
            /\ arb' = opportunities[idx]
            /\ \A i \in 1..Len(opportunities), j \in 1..Len(opportunities) :
                   i < j => opportunities[i].profit >= opportunities[j].profit
            /\ ~LegsInFlight
            /\ \A o \in Outcomes : legs[o].status = "none"
       /\ (bpc = "execute" /\ bpc' \notin {"execute", "cancelled"} /\ ~cycle_error') =>
            bpc' = "delay" /\ epc = "done" /\ ~LegsInFlight
       /\ (bpc = "delay" /\ bpc' \notin {"delay", "cancelled"}) =>
            /\ bpc' = "iterate"
            /\ idx' = idx + 1
            /\ wake = IF execution_delay_ms = 0 THEN "yield" ELSE "timer"
       /\ (bpc \in {"iterate", "execute", "delay"} /\ bpc' \in {"iterate", "execute", "delay"}) =>
            /\ opportunities' = opportunities
            /\ idx' \in {idx, idx + 1}
            /\ idx' = idx + 1 => bpc = "delay"
      ]_vars

\* C29 witness: the second opportunity of a cycle, the short one, is being
\* executed after the first one was booked, the execution delay of 1 s having
\* elapsed in between.
C29_Witness ==
    /\ bpc = "execute"
    /\ epc = "legs"
    /\ execution_delay_ms = 1000
    /\ Len(opportunities) = 2
    /\ idx = 2
    /\ arb = opportunities[2]
    /\ arb.type = "short"
    /\ opportunities[1].type = "long"
    /\ Len(trade_logs) = 1
    /\ trade_logs[1].market = opportunities[1].market

\* C30: every call of execute made by the for loop passes min(position_size,
\* balance) of the balance at that moment, which is the balance booked with the
\* last trade, and 0 < amount <= balance; and when the amount computed at the top
\* of the loop is not positive, execute is not called and the loop is left.
C30_AmountFromBalance ==
    [][/\ ExecuteStarts =>
            /\ amount' = RatMin(position_size, balance)
            /\ RatLT(Zero, amount')
            /\ RatLE(amount', balance)
            /\ trade_logs # <<>> => balance = trade_logs[Len(trade_logs)].balance
       /\ (bpc = "iterate" /\ bpc' # "iterate" /\ ~RatLT(Zero, RatMin(position_size, balance))) =>
            bpc' = "postcycle"
      ]_vars

\* C30 witness: starting with 5 dollars, the first execution of the cycle put in
\* all 5 and doubled them; the second one is called with min(10, 10) = 10 dollars.
C30_Witness ==
    /\ bpc = "execute"
    /\ idx = 2
    /\ Len(trade_logs) = 1
    /\ trade_logs[1].profit = <<5, 1>>
    /\ balance = <<10, 1>>
    /\ amount = <<10, 1>>
    /\ position_amount = <<amount>>


(***************************************************************************)
(* The profit of the opportunities                                         *)
(***************************************************************************)

\* C31, first part: every opportunity in the list scan_markets is building or
\* has returned has profit >= min_profit_threshold.
C31_ScanFilter ==
    \A i \in DOMAIN opportunities : opportunities[i].profit >= min_profit_threshold

\* C31 as stated: every opportunity analyze_market materializes has profit > 0.
C31_AsStated ==
    (apc = "returned" /\ ares # <<>>) => ares[1].profit > 0


(***************************************************************************)
(* _parse_binary_market, _extract_yes_no_prices and _mock_markets          *)
(***************************************************************************)

\* A JSON value under a price key: absent (or null), a string that float()
\* rejects, "nan" (or the NaN literal json.loads accepts), a number, or a
\* string holding a number.  Numbers are in mills.
Val(k, v) == [k |-> k, v |-> v]
Missing == Val("missing", 0)
Text == Val("text", 0)
NaNText == Val("nan", 0)
Num(v) == Val("num", v)
NumStr(v) == Val("numstr", v)

\* Python truthiness: None, 0 and 0.0 are false; a non-empty string is true.
Truthy(x) == x.k \in {"text", "nan", "numstr"} \/ (x.k = "num" /\ x.v # 0)

\* x.get("bestBid") or x.get("best_bid") or x.get("bid")
OrChain(ks) == IF Truthy(ks[1]) THEN ks[1] ELSE IF Truthy(ks[2]) THEN ks[2] ELSE ks[3]

\* A float: NaN, or a number in mills.
Float(nan, v) == [nan |-> nan, v |-> v]

\* float(x) of a value it accepts.
ToFloat(x) == IF x.k = "nan" THEN Float(TRUE, 0) ELSE Float(FALSE, x.v)

\* a < b on floats: false when either is NaN.
FloatLT(a, b) == ~a.nan /\ ~b.nan /\ a.v < b.v

\* a <= 0 on a float.
FloatLE0(a) == ~a.nan /\ a.v <= 0

\* min(a, b, c, d): the first argument is kept until a later one compares below it.
RECURSIVE PyMinFrom(_, _)
PyMinFrom(cur, rest) ==
    IF rest = <<>> THEN cur
    ELSE PyMinFrom(IF FloatLT(Head(rest), cur) THEN Head(rest) ELSE cur, Tail(rest))

PyMin(fs) == PyMinFrom(Head(fs), Tail(fs))

\* _bid_ask: <<>> for None, <<bid, ask>> otherwise.
BidAsk(x) ==
    LET bid == OrChain(x.bid)
        ask == OrChain(x.ask)
    IN  IF bid.k = "missing" \/ ask.k = "missing" THEN <<>>
        ELSE IF bid.k = "text" \/ ask.k = "text" THEN <<>>
        ELSE <<ToFloat(bid), ToFloat(ask)>>

\* _extract_yes_no_prices: <<>> for None, the four floats otherwise.  m.yes and
\* m.no are the outcome dicts the label scan found (<<>> when it found none).
ExtractYesNoPrices(m) ==
    IF ~m.outcomes_is_list THEN <<>>
    ELSE IF m.yes = <<>> \/ m.no = <<>> THEN <<>>
    ELSE LET y == BidAsk(m.yes[1])
             n == BidAsk(m.no[1])
         IN  IF y = <<>> \/ n = <<>> THEN <<>> ELSE <<y[1], y[2], n[1], n[2]>>

\* _parse_binary_market on a raw item: <<>> for None, <<BinaryMarket>> otherwise.
\* An identifier of 0 stands for an absent (or empty) one.
ParseRawMarket(m) ==
    IF ~m.is_dict THEN <<>>
    ELSE IF ~m.active THEN <<>>
    ELSE LET condition_id == IF m.condition_id # 0 THEN m.condition_id ELSE m.id
             market_id == IF m.id # 0 THEN m.id ELSE condition_id
             prices == ExtractYesNoPrices(m)
         IN  IF condition_id = 0 \/ market_id = 0 THEN <<>>
             ELSE IF prices = <<>> THEN <<>>
             ELSE IF FloatLE0(PyMin(prices)) THEN <<>>
             ELSE <<[market |-> market_id, condition_id |-> condition_id,
                     yes_bid |-> prices[1], yes_ask |-> prices[2],
                     no_bid |-> prices[3], no_ask |-> prices[4], active |-> TRUE]>>

\* One market of _mock_markets from the generator's draws (mills):
\* mid_yes in [50, 950], ineff in [-30, 30], spread in [1, 10].
Clamp(x) == Max(1, Min(999, x))

MockMarket(d) ==
    LET mid_no == Clamp((Dollar - d.mid_yes) + d.ineff)
    IN  <<[market |-> d.i, condition_id |-> d.i,
           yes_bid |-> Float(FALSE, Clamp(d.mid_yes - d.spread)),
           yes_ask |-> Float(FALSE, Clamp(d.mid_yes + d.spread)),
           no_bid |-> Float(FALSE, Clamp(mid_no - d.spread)),
           no_ask |-> Float(FALSE, Clamp(mid_no + d.spread)), active |-> TRUE]>>

\* What a price is found under: one key holding each kind of value, a zero under
\* the first key with the price under the last, and a zero under the last key.
Keys(v) == <<v, Missing, Missing>>
YesFields ==
    {Keys(v) : v \in {Missing, Text, NaNText, Num(0), Num(-200), Num(480), NumStr(0)}}
        \cup {<<Num(0), Missing, Num(480)>>, <<Missing, Missing, Num(0)>>}
NoFields == {Keys(v) : v \in {Missing, NaNText, Num(-200), Num(490)}}

\* The other fields of a raw item: well formed, or with one thing wrong.
RawShapes ==
    {[is_dict |-> TRUE, active |-> TRUE, id |-> 7, condition_id |-> 8, outcomes_is_list |-> TRUE],
     [is_dict |-> FALSE, active |-> TRUE, id |-> 7, condition_id |-> 8, outcomes_is_list |-> TRUE],
     [is_dict |-> TRUE, active |-> FALSE, id |-> 7, condition_id |-> 8, outcomes_is_list |-> TRUE],
     [is_dict |-> TRUE, active |-> TRUE, id |-> 7, condition_id |-> 0, outcomes_is_list |-> TRUE],
     [is_dict |-> TRUE, active |-> TRUE, id |-> 0, condition_id |-> 0, outcomes_is_list |-> TRUE],
     [is_dict |-> TRUE, active |-> TRUE, id |-> 7, condition_id |-> 8, outcomes_is_list |-> FALSE]}

RawItems ==
    {[src |-> "gamma", is_dict |-> sh.is_dict, active |-> sh.active, id |-> sh.id,
      condition_id |-> sh.condition_id, outcomes_is_list |-> sh.outcomes_is_list,
      yes |-> <<[bid |-> yb, ask |-> ya]>>, no |-> <<[bid |-> nb, ask |-> na]>>] :
        sh \in RawShapes, yb \in YesFields, ya \in YesFields, nb \in NoFields, na \in NoFields}

MockDraws ==
    [src : {"mock"}, i : {1}, mid_yes : {50, 500, 950}, ineff : {-30, 0, 30}, spread : {1, 10}]

InitParse ==
    /\ raw \in RawItems \cup MockDraws
    /\ parsed = <<>>
    /\ ppc = "ready"
    /\ capital = <<0, 1>>
    /\ positions = <<>>
    /\ trades = <<>>
    /\ next_id = 1
    /\ handles = <<>>
    /\ pmret = [op |-> "none", raised |-> FALSE, trades |-> <<>>]
    /\ position = [sl |-> 0, tp |-> 0]
    /\ current_price = 0
    /\ time_remaining = 0
    /\ action = <<>>
    /\ config = <<>>
    /\ vpc = "none"
    /\ max_calls = 0
    /\ FreshLimiter
    /\ DefaultDetector
    /\ NoAnalysis
    /\ NoScan
    /\ DefaultClient
    /\ NoExecution
    /\ NoGateway
    /\ NoBot

notParse == <<rlvars, cfgvars, anvars, detvars, clientvars, exvars, gwvars, botvars, loopvars, pmvars, riskvars, startvars>>

\* get_top_markets in live mode hands one raw item to _parse_binary_market.
ParseBinaryMarketCall ==
    /\ ppc = "ready"
    /\ raw.src = "gamma"
    /\ parsed' = ParseRawMarket(raw)
    /\ ppc' = "returned"
    /\ UNCHANGED raw
    /\ UNCHANGED notParse

\* get_top_markets in mock mode: one market of _mock_markets.
MockMarketsCall ==
    /\ ppc = "ready"
    /\ raw.src = "mock"
    /\ parsed' = MockMarket(raw)
    /\ ppc' = "returned"
    /\ UNCHANGED raw
    /\ UNCHANGED notParse

NextParse ==
    \/ ParseBinaryMarketCall
    \/ MockMarketsCall

SpecParse == InitParse /\ [][NextParse]_vars

\* A strictly positive price.
Positive(f) == ~f.nan /\ f.v > 0

\* The value the code reads for a price is missing, not a number, or not positive.
BadQuote(ks) ==
    LET x == OrChain(ks) IN x.k \in {"missing", "text", "nan"} \/ x.v <= 0

\* C32, the part that holds: a market of _mock_markets is active, has a
\* condition identifier and has four strictly positive prices; and a raw item
\* with a missing or non-numeric (text) quote, or with no quote that is NaN, is
\* emitted only with four strictly positive prices.
C32_WithoutNaN ==
    (ppc = "returned" /\ parsed # <<>>) =>
        \/ raw.src = "gamma" /\ \E f \in {raw.yes[1].bid, raw.yes[1].ask, raw.no[1].bid, raw.no[1].ask} :
                                    OrChain(f).k = "nan"
        \/ /\ parsed[1].active
           /\ parsed[1].condition_id # 0
           /\ Positive(parsed[1].yes_bid) /\ Positive(parsed[1].yes_ask)
           /\ Positive(parsed[1].no_bid) /\ Positive(parsed[1].no_ask)

\* C32 as stated: every BinaryMarket returned is active, has a condition
\* identifier and four strictly positive prices, and a raw item with a missing,
\* non-numeric or non-positive bid or ask is dropped.
C32_AsStated ==
    ppc = "returned" =>
        /\ parsed # <<>> =>
              /\ parsed[1].active
              /\ parsed[1].condition_id # 0
              /\ Positive(parsed[1].yes_bid) /\ Positive(parsed[1].yes_ask)
              /\ Positive(parsed[1].no_bid) /\ Positive(parsed[1].no_ask)
        /\ (raw.src = "gamma" /\ (\E f \in {raw.yes[1].bid, raw.yes[1].ask, raw.no[1].bid, raw.no[1].ask} :
                                     BadQuote(f))) => parsed = <<>>


(***************************************************************************)
(* The scan cycle when the listing fails or is empty                       *)
(***************************************************************************)

\* C33: in every step, when get_top_markets raised or returned no market,
\* scan_markets returns the empty list to scan_loop without raising (the cycle
\* is not in its error handler); scan_loop then goes from the empty list to the
\* 30 s cooldown, and from the cooldown to the interval wait, with no execution
\* and the balance and the trade log unchanged.
C33_EmptyScan ==
    [][/\ (bpc = "scan" /\ dpc = "fetching" /\ dpc' = "done" /\ markets' = <<>>) =>
            /\ opportunities' = <<>>
            /\ bpc' = "scan"
            /\ ~cycle_error'
       /\ (bpc = "scan" /\ dpc = "fetching" /\ bpc' \notin {"scan", "cancelled"}) => FALSE
       /\ (bpc = "scan" /\ dpc = "done" /\ opportunities = <<>> /\ bpc' # "scan" /\ ~cycle_error') =>
            /\ bpc' = "cooldown"
            /\ UNCHANGED <<balance, trade_logs, exvars>>
       /\ (bpc = "cooldown" /\ bpc' # "cooldown") =>
            /\ bpc' \in {"interval", "cancelled"}
            /\ UNCHANGED <<balance, trade_logs, exvars>>
      ]_vars

\* C33 witness: in a later cycle (a trade is already booked) the gateway held a
\* listing but the fetch failed: scan_markets has returned the empty list.
C33_Witness ==
    /\ bpc = "scan"
    /\ dpc = "done"
    /\ feed # <<>>
    /\ markets = <<>>
    /\ opportunities = <<>>
    /\ ~cycle_error
    /\ Len(trade_logs) = 1
    /\ balance = trade_logs[1].balance


(***************************************************************************)
(* The balance and the trade log over the cycles                           *)
(***************************************************************************)

\* The balance before the first logged trade: the current balance while the
\* log is empty, afterwards the first entry's balance less its profit.
LedgerBase ==
    IF trade_logs = <<>> THEN balance ELSE RatSub(trade_logs[1].balance, trade_logs[1].profit)

\* Every entry's balance is the balance of the entry before it plus its own
\* profit, and the last entry's balance is the current balance.
Chained(logs, bal) ==
    /\ \A i \in DOMAIN logs : i > 1 => logs[i].balance = RatAdd(logs[i - 1].balance, logs[i].profit)
    /\ logs # <<>> => logs[Len(logs)].balance = bal

\* C34: before start() runs the trade log is empty; the balance before the
\* first logged trade never changes, so it is the starting capital; the log
\* grows only when a successful execution is recorded, by one entry at its end,
\* for that execution; and every entry's balance is the starting capital plus
\* the profits of the entries up to it, the balance right after that trade.
C34_Ledger ==
    [][/\ bpc = "created" => trade_logs = <<>>
       /\ LedgerBase' = LedgerBase
       /\ Chained(trade_logs', balance')
       /\ (Recording /\ result[1].success) =>
              trade_logs' = Append(trade_logs,
                                   [market |-> result[1].market, type |-> result[1].type,
                                    profit |-> result[1].profit, balance |-> balance'])
       /\ ~(Recording /\ result[1].success) => trade_logs' = trade_logs
      ]_vars

\* C34 witness: starting with 5 dollars, two executions of one cycle were booked
\* (profits 5 and 30/97): the balance is 5 + 5 + 30/97 and the task is waiting.
C34_Witness ==
    /\ bpc = "postcycle"
    /\ Len(trade_logs) = 2
    /\ trade_logs[1].profit = <<5, 1>>
    /\ trade_logs[1].balance = <<10, 1>>
    /\ trade_logs[2].balance = balance
    /\ balance = RatAdd(<<10, 1>>, trade_logs[2].profit)
    /\ LedgerBase = <<5, 1>>


(***************************************************************************)
(* Paper trading with the default thresholds                               *)
(***************************************************************************)

\* The profit of a filled arbitrage of amt dollars at the combined price sum_price.
PaperProfit(type, amt, sum_price) ==
    IF type = "long" THEN RatSub(RatDiv(amt, Mills(sum_price)), amt)
    ELSE RatSub(RatMul(amt, Mills(sum_price)), amt)

\* C35: in paper trading with the default thresholds every successful execution
\* the loop records has the profit amount/(yes_ask+no_ask) - amount (long) or
\* amount*(yes_bid+no_bid) - amount (short), which is above 0; no step lowers the
\* balance, and the balance is never under the starting capital.
C35_PaperProfit ==
    [][/\ (Recording /\ result[1].success) =>
            /\ result[1].profit = PaperProfit(arb.type, amount, arb.yes_price + arb.no_price)
            /\ RatLT(Zero, result[1].profit)
            /\ balance' = RatAdd(balance, result[1].profit)
       /\ RatLE(balance, balance')
       /\ RatLE(LedgerBase, balance')
      ]_vars

\* C35 witness: a short arbitrage at bids of 0.60 and 0.50 was executed with the
\* 5 dollars of starting capital and booked with its profit of 0.50.
C35_Witness ==
    /\ paper_trading
    /\ long_sum_threshold = DefaultLongSumThreshold
    /\ short_sum_threshold = DefaultShortSumThreshold
    /\ bpc = "delay"
    /\ trade_logs # <<>>
    /\ trade_logs[1].type = "short"
    /\ trade_logs[1].profit = <<1, 2>>
    /\ trade_logs[1].balance = <<11, 2>>
    /\ LedgerBase = <<5, 1>>


(***************************************************************************)
(* analyze_market: the long and the short condition                        *)
(***************************************************************************)

LongCondition(m) == m.yes_ask + m.no_ask < long_sum_threshold
ShortCondition(m) == m.yes_bid + m.no_bid > short_sum_threshold

\* C36: with the long threshold at most the short threshold, a market that got
\* past the early returns of analyze_market has each ask at least its bid, does
\* not meet the long and the short condition together, and the value returned is
\* the long arbitrage when the long condition holds, the short arbitrage when the
\* short condition holds, and None otherwise.
C36_OneCondition ==
    (apc = "returned" /\ ~Rejected(am) /\ long_sum_threshold <= short_sum_threshold) =>
        /\ am.yes_ask >= am.yes_bid /\ am.no_ask >= am.no_bid
        /\ ~(LongCondition(am) /\ ShortCondition(am))
        /\ ares = IF LongCondition(am) THEN <<LongArb(am)>>
                  ELSE IF ShortCondition(am) THEN <<ShortArb(am)>>
                  ELSE <<>>

\* C36 witness: under the default thresholds a market with bids of 0.52 and 0.51
\* and asks of 0.52 and 1.00 meets the short condition only, and a short
\* arbitrage was returned.
C36_Witness ==
    /\ apc = "returned"
    /\ long_sum_threshold = DefaultLongSumThreshold
    /\ short_sum_threshold = DefaultShortSumThreshold
    /\ am.active /\ am.volume = 50000
    /\ am.yes_bid = 520 /\ am.yes_ask = 520 /\ am.no_bid = 510 /\ am.no_ask = 1000
    /\ ShortCondition(am) /\ ~LongCondition(am)
    /\ Len(ares) = 1 /\ ares[1].type = "short" /\ ares[1].profit = 30


(***************************************************************************)
(* AsyncRateLimiter.acquire: every call returns                            *)
(***************************************************************************)

\* What the event loop does on its own: time advances, a timer that is due
\* resumes its sleeper, and the lock, once released, resumes its first waiter.
\* At most one caller can be resumed at a time: the sleeper holds the lock.
LoopRuns == Tick \/ \E c \in Callers : LockGranted(c) \/ WakeUp(c)

\* The event loop does not stop while something is due.
SpecRLFair == SpecRL /\ WF_vars(LoopRuns)

\* The clock of the model has stopped before the sleep of the caller holding the
\* lock is over.
BeyondHorizon == clock = MaxTime /\ \E d \in Callers : rlpc[d] = "sleeping" /\ wakeAt[d] > MaxTime

\* C37: whenever acquire() calls are sleeping or waiting for the lock, a moment
\* comes at which every one of them has returned, unless the clock of the model
\* stops before the sleep in progress is over.
C37_AcquireReturns ==
    (\E c \in Callers : rlpc[c] # "idle") ~> ((\A c \in Callers : rlpc[c] = "idle") \/ BeyondHorizon)

\* C37 witness: with one call allowed per period, a caller that queued for the
\* lock while its holder slept was admitted after its own sleep.
C37_Witness ==
    /\ max_calls = 1
    /\ Len(admitted) = 3
    /\ admitted[2].suspended /\ admitted[3].suspended
    /\ admitted[3].issued < admitted[2].at
    /\ admitted[3].at >= admitted[2].at + period_seconds
    /\ \A c \in Callers : rlpc[c] = "idle"
    /\ lockHolder = 0


(***************************************************************************)
(* stop() while start() is running                                         *)
(***************************************************************************)

\* task.cancel() was called on the task of start().
TaskCancelled == cancelling \/ bpc = "cancelled"

\* C38: after stop() was called on a running start() whose task is not cancelled,
\* no step starts a scan cycle or calls execute, and start() eventually returns
\* (or the task is cancelled after all).
C38_StopEndsStart ==
    /\ [][(stop_called /\ ~TaskCancelled) =>
             /\ cycle_count' = cycle_count
             /\ ~(bpc = "loop" /\ bpc' = "scan")
             /\ ~ExecuteStarts]_vars
    /\ ((stop_called /\ bpc \notin Finished) ~> (bpc = "returned" \/ TaskCancelled))

\* C38 witness: stop() was called during the delay after an execution, without
\* a signal; the delay and the 30 s sleep after the cycle ran to their timers,
\* the loop test failed and start() returned while main still waits.
C38_Witness ==
    /\ stop_called
    /\ ~TaskCancelled
    /\ bpc = "returned"
    /\ mpc = "wait_stop"
    /\ Len(trade_logs) = 1
    /\ expired = {"delay", "postcycle"}
    /\ ~running


(***************************************************************************)
(* stop() before start()                                                   *)
(***************************************************************************)

\* bot.stop() is called on the service before the task of start() has run its
\* first step: there is no stop event yet and nothing waits.
StopBeforeStart ==
    /\ bpc = "created"
    /\ ~stop_called
    /\ Stop
    /\ UNCHANGED <<position_size, execution_delay_ms, balance, trade_logs, cycle_count,
                   position_amount, bpc, idx, cancelling, mpc, cycle_error, stops, expired>>
    /\ UNCHANGED <<ready, todo>>
    /\ UNCHANGED <<rlvars, cfgvars, anvars, detvars, clientvars, exvars, gwvars, libvars>>

\* The loop test, with the scan answered by a listing without arbitrage or by
\* one with a long arbitrage that fills.
EarlyListings == {Listing(<<>>), Listing(<<LongQuote>>)}

EarlyLoopTest ==
    /\ bpc = "loop"
    /\ ScanLoopHead(EarlyListings)

\* As InitCycle, with 100 dollars and a delay of 1 s after each execution.
InitEarly == InitCycle /\ balance = <<100, 1>> /\ execution_delay_ms = 1000

NextEarly ==
    \/ StopBeforeStart
    \/ RunOnce
    \/ BotStart
    \/ EarlyLoopTest
    \/ BotScanStart
    \/ FetchCompletes
    \/ BotScanFetched
    \/ BotScanFetchFailed
    \/ Ranked
    \/ Iterate
    \/ BotExecCall
    \/ \E o \in Outcomes : BotLegRuns(o)
    \/ \E o \in Outcomes : GatherCallback(o)
    \/ BotExecJoin
    \/ Record
    \/ CycleFails
    \/ TimerCallback
    \/ BotWakes
    \/ ReadFromSelf
    \/ RequestStop
    \/ StopCall
    \/ MainCancels
    \/ MainReturns
    \/ BotCancelled

SpecEarly == InitEarly /\ [][NextEarly]_vars

\* The loop keeps running its callbacks, as in SpecBotFair.
SpecEarlyFair == SpecEarly /\ WF_vars(NextEarly)

\* C39: the first step of start() sets the running flag and makes a fresh stop
\* event, whatever stop() did before; start() returns only after a stop request
\* made once it had begun; and as long as there is no such request every scan
\* cycle is followed by another one.
C39_EarlyStopForgotten ==
    /\ [][(bpc = "created" /\ bpc' # "created") => (running' /\ stop_event' = "clear")]_vars
    /\ [](bpc = "returned" => stops > 0)
    /\ \A k \in 0..(CycleWrap - 1) :
          [](((Initialized /\ cycle_count = k) /\ stops = 0)
                => <>(cycle_count # k \/ stops > 0))

\* C39 witness: stop() was called before start() and never again; start() has
\* gone through a scan cycle that booked a trade and waits for the next one with
\* the flag set and the event clear.
C39_Witness ==
    /\ stop_called
    /\ stops = 0
    /\ running
    /\ stop_event = "clear"
    /\ bpc = "interval"
    /\ Len(trade_logs) = 1
    /\ expired # {}


(***************************************************************************)
(* PositionManager: the capital and the books                              *)
(***************************************************************************)

\* The stakes of the open positions, and the pnl of the recorded trades.
RECURSIVE SumSizes(_)
SumSizes(ps) == IF ps = <<>> THEN Zero ELSE RatAdd(ps[1].size_usd, SumSizes(Tail(ps)))

RECURSIVE SumPnl(_)
SumPnl(ts) == IF ts = <<>> THEN Zero ELSE RatAdd(ts[1].pnl, SumPnl(Tail(ts)))

\* Every close so far was made on a position that was open: no position was
\* recorded as a trade twice.
ClosedWhileOpen ==
    \A i, j \in DOMAIN trades : i # j => trades[i].position_id # trades[j].position_id

\* C40: as long as every close was made on an open position, the capital plus
\* the stakes of the open positions is the initial capital plus the pnl of the
\* recorded trades, and the capital is not negative; rejected calls included.
C40_Conservation ==
    ClosedWhileOpen =>
        /\ RatAdd(capital, SumSizes(positions)) = RatAdd(InitialCapital, SumPnl(trades))
        /\ RatLE(Zero, capital)

\* C40 witness: two positions of 10 dollars were opened at 0.50, one was closed
\* at 0.60 for 12 dollars, and a close at a price of 0 was then rejected:
\* 92 + 10 = 100 + 2.
C40_Witness ==
    /\ ClosedWhileOpen
    /\ pmret.op = "close_position" /\ pmret.raised
    /\ Len(positions) = 1 /\ positions[1].size_usd = <<10, 1>>
    /\ Len(trades) = 1 /\ trades[1].pnl = <<2, 1>>
    /\ capital = <<92, 1>>
====
